---------------------------- MODULE Spec2Model ----------------------------
(***************************************************************************)
(* gh-slimify: classification of GitHub Actions jobs for migration from    *)
(* ubuntu-latest to ubuntu-slim.                                           *)
(*                                                                         *)
(* Go strings are TLA+ strings, handled as sequences of characters: the    *)
(* prefix tests, splitting, trimming, lower-casing and regular expressions *)
(* of the source are computed character by character.                      *)
(***************************************************************************)
EXTENDS Integers, Sequences, FiniteSets, TLC

VARIABLES
  job,    \* the job handed to the workflow and scan functions
  res,    \* what those functions returned for job
  jpc,    \* which of them have been called
  dur,    \* the duration handed to formatDuration, in seconds
  shown,  \* what formatDuration returned for dur
  shell,     \* the run script handed to extractCommands
  extracted, \* what extractCommands returned for shell
  again,     \* what extractCommands returned for each entry of extracted
  target,    \* the job id handed to UpdateRunsOn
  edited,    \* the call of UpdateRunsOn: [called, writeOK, err, before]
  \* the environment of a run of the command
  disk,         \* path -> [exists, data]: the files
  dirExists,    \* .github/workflows exists
  api,          \* path -> reply of the API for the runs of that workflow
  apiReady,     \* "ok", or what fails before the first request
  command,      \* "scan" or "fix"
  args,         \* [paths, scanAll, skipDuration, force]
  edit,         \* a change another process makes to a file during the run
  \* scan.Scan
  pc,           \* position of the command
  workflows,    \* the loaded workflows
  wi,           \* index of the workflow being classified
  left,         \* its jobs not yet visited by the range over wf.Jobs
  result,       \* ScanResult: [Candidates, IneligibleJobs]
  fetch,        \* per candidate, what GetJobDuration returned (history)
  scanErr,      \* Scan returned an error
  \* runScan / runFix
  report,       \* [safe, warning]: candidate indices as runScan groups them
  jobsToUpdate, \* candidate indices
  skippedJobs,  \* candidate indices
  todo,         \* entries of jobsToUpdate not yet visited
  curPath,      \* key of workflowMap being visited
  updatedCount,
  errorCount,
  updated,      \* candidate indices UpdateRunsOn succeeded for (history)
  visits,       \* per iteration of the update loop, what it did (history)
  exit          \* exit status, -1 while running

callVars == <<shell, extracted, again, target, edited>>

jobVars == <<job, res, jpc, dur, shown, callVars>>

envVars == <<disk, dirExists, api, apiReady, command, args, edit>>

scanVars == <<pc, workflows, wi, left, result, fetch, scanErr>>

fixVars ==
  <<report, jobsToUpdate, skippedJobs, todo, curPath, updatedCount, errorCount,
    updated, visits, exit>>

vars == <<jobVars, envVars, scanVars, fixVars>>

(***************************************************************************)
(* Bounds of the model.                                                    *)
(***************************************************************************)
MaxSteps == 2          \* steps per job in the eligibility inputs
MaxRunsOnItems == 2    \* elements of a runs-on sequence
MaxPieces == 4         \* pieces concatenated into a run script
MaxCmdSteps == 3       \* steps per job in the missing-command inputs
MaxSeconds == 7320     \* longest duration handed to formatDuration, in seconds
MaxWords == 3          \* words joined into a script handed to extractCommands

(***************************************************************************)
(* strings / unicode helpers of the Go standard library, as the source     *)
(* uses them.                                                              *)
(***************************************************************************)
UpperLetters == "ABCDEFGHIJKLMNOPQRSTUVWXYZ"

LowerLetters == "abcdefghijklmnopqrstuvwxyz"

DigitChars == "0123456789"

Range(f) == {f[i] : i \in DOMAIN f}

\* s[i-1] of Go, with i a 1-based position
Char(s, i) == SubSeq(s, i, i)

Chars(s) == {Char(s, i) : i \in 1..Len(s)}

\* unicode.IsSpace restricted to ASCII; also the class \s of Go regexp
IsSpace(c) == c \in {" ", "\t", "\n", "\r", "\f"}

\* the class \w of Go regexp: [0-9A-Za-z_]
WordChars ==
  Chars(UpperLetters) \cup Chars(LowerLetters) \cup Chars(DigitChars) \cup {"_"}

IsWordChar(c) == c \in WordChars

\* unicode.ToLower on ASCII
LowerOf == [c \in Chars(UpperLetters) |->
              Char(LowerLetters, CHOOSE i \in 1..26 : Char(UpperLetters, i) = c)]

ToLowerChar(c) == IF c \in DOMAIN LowerOf THEN LowerOf[c] ELSE c

\* strings.ToLower
RECURSIVE ToLower(_)
ToLower(s) ==
  IF s = "" THEN "" ELSE ToLowerChar(Char(s, 1)) \o ToLower(Tail(s))

\* s[i-1:i-1+len(p)] == p, with i a 1-based position
MatchAt(s, i, p) ==
  /\ i >= 1
  /\ i + Len(p) - 1 <= Len(s)
  /\ SubSeq(s, i, i + Len(p) - 1) = p

\* strings.HasPrefix
HasPrefix(s, p) == MatchAt(s, 1, p)

\* strings.HasSuffix
HasSuffix(s, p) == MatchAt(s, Len(s) - Len(p) + 1, p)

\* strings.Contains
Contains(s, p) == \E i \in 1..(Len(s) + 1) : MatchAt(s, i, p)

\* strings.Index, 1-based; 0 when absent
IndexOf(s, p) ==
  IF Contains(s, p)
    THEN CHOOSE i \in 1..(Len(s) + 1) :
           MatchAt(s, i, p) /\ \A k \in 1..(i - 1) : ~MatchAt(s, k, p)
    ELSE 0

\* strings.Split with a non-empty separator
RECURSIVE Split(_, _)
Split(s, sep) ==
  LET i == IndexOf(s, sep) IN
    IF i = 0
      THEN <<s>>
      ELSE <<SubSeq(s, 1, i - 1)>> \o Split(SubSeq(s, i + Len(sep), Len(s)), sep)

RECURSIVE TrimLeft(_)
TrimLeft(s) ==
  IF s # "" /\ IsSpace(Char(s, 1)) THEN TrimLeft(Tail(s)) ELSE s

RECURSIVE TrimRight(_)
TrimRight(s) ==
  IF s # "" /\ IsSpace(Char(s, Len(s)))
    THEN TrimRight(SubSeq(s, 1, Len(s) - 1))
    ELSE s

\* strings.TrimSpace
TrimSpace(s) == TrimRight(TrimLeft(s))

\* strings.Fields: the maximal runs of non-space characters
RECURSIVE Fields(_)
Fields(s) ==
  LET t == TrimLeft(s) IN
    IF t = ""
      THEN <<>>
      ELSE LET ends == {k \in 1..Len(t) : IsSpace(Char(t, k))}
               n == IF ends = {} THEN Len(t) + 1
                    ELSE CHOOSE k \in ends : \A m \in ends : k <= m
           IN <<SubSeq(t, 1, n - 1)>> \o Fields(SubSeq(t, n, Len(t)))

\* strings.Join
RECURSIVE Join(_, _)
Join(parts, sep) ==
  IF parts = <<>> THEN ""
  ELSE IF Len(parts) = 1 THEN parts[1]
  ELSE parts[1] \o sep \o Join(Tail(parts), sep)

\* sequences over S of length at most n
SeqUpTo(S, n) == UNION {[1..k -> S] : k \in 0..n}

(***************************************************************************)
(* Values of the dynamically typed YAML fields (Go interface{}).           *)
(* kind "nil" is the absent field; "string" carries str; "seq" carries     *)
(* items; "map" carries size entries; "int" and "bool" are other scalars.  *)
(***************************************************************************)
NilValue == [kind |-> "nil", str |-> "", items |-> <<>>, size |-> 0]

StringValue(s) == [kind |-> "string", str |-> s, items |-> <<>>, size |-> 0]

SeqValue(xs) == [kind |-> "seq", str |-> "", items |-> xs, size |-> Len(xs)]

MapValue(n) == [kind |-> "map", str |-> "", items |-> <<>>, size |-> n]

IntValue == [kind |-> "int", str |-> "", items |-> <<>>, size |-> 0]

BoolValue == [kind |-> "bool", str |-> "", items |-> <<>>, size |-> 0]

(***************************************************************************)
(* Static tables of the workflow package.                                  *)
(***************************************************************************)
setupActionCommands == <<
  [prefix |-> "actions/setup-go",              commands |-> <<"go">>],
  [prefix |-> "actions/setup-node",            commands |-> <<"node", "npm", "npx">>],
  [prefix |-> "actions/setup-python",          commands |-> <<"python", "python3", "pip", "pip3">>],
  [prefix |-> "actions/setup-java",            commands |-> <<"java", "javac", "mvn", "gradle">>],
  [prefix |-> "actions/setup-dotnet",          commands |-> <<"dotnet">>],
  [prefix |-> "actions/setup-ruby",            commands |-> <<"ruby", "gem">>],
  [prefix |-> "hashicorp/setup-terraform",     commands |-> <<"terraform">>],
  [prefix |-> "hashicorp/setup-packer",        commands |-> <<"packer">>],
  [prefix |-> "oven-sh/setup-bun",             commands |-> <<"bun">>],
  [prefix |-> "astral-sh/setup-uv",            commands |-> <<"uv">>],
  [prefix |-> "erlef/setup-beam",              commands |-> <<"erl", "elixir", "mix", "rebar3", "hex">>],
  [prefix |-> "microsoft/setup-msbuild",       commands |-> <<"msbuild">>],
  [prefix |-> "denoland/setup-deno",           commands |-> <<"deno">>],
  [prefix |-> "jfrog/setup-jfrog-cli",         commands |-> <<"jfrog">>],
  [prefix |-> "supabase/setup-cli",            commands |-> <<"supabase">>],
  [prefix |-> "aws-actions/setup-sam",         commands |-> <<"sam">>],
  [prefix |-> "gruntwork-io/setup-terragrunt", commands |-> <<"terragrunt">>],
  [prefix |-> "pdm-project/setup-pdm",         commands |-> <<"pdm">>]
>>

containerActionPrefixes == <<"docker">>

\* the alternation (?:build|run|exec|ps|pull|push|tag|login)
dockerSubCommands ==
  {"build", "run", "exec", "ps", "pull", "push", "tag", "login"}

(***************************************************************************)
(* regexp: the three containerCommandPatterns, matched as MatchString      *)
(* does (a match anywhere in the text).                                    *)
(***************************************************************************)
\* \b at the gap before position i (1 <= i <= Len(s) + 1)
WordBoundaryAt(s, i) ==
  LET before == i > 1 /\ IsWordChar(Char(s, i - 1))
      after  == i <= Len(s) /\ IsWordChar(Char(s, i))
  IN before # after

\* \bdocker[\s-](?:build|run|exec|ps|pull|push|tag|login)\b
MatchDockerSubCommand(s) ==
  \E i \in 1..Len(s) :
    /\ WordBoundaryAt(s, i)
    /\ MatchAt(s, i, "docker")
    /\ i + 6 <= Len(s)
    /\ (IsSpace(Char(s, i + 6)) \/ Char(s, i + 6) = "-")
    /\ \E w \in dockerSubCommands :
         /\ MatchAt(s, i + 7, w)
         /\ WordBoundaryAt(s, i + 7 + Len(w))

\* \bdocker-compose\b
MatchDockerHyphenCompose(s) ==
  \E i \in 1..Len(s) :
    /\ WordBoundaryAt(s, i)
    /\ MatchAt(s, i, "docker-compose")
    /\ WordBoundaryAt(s, i + 14)

\* \bdocker\s+compose\b
MatchDockerSpaceCompose(s) ==
  \E i \in 1..Len(s) :
    /\ WordBoundaryAt(s, i)
    /\ MatchAt(s, i, "docker")
    /\ \E n \in 1..Len(s) :
         /\ i + 5 + n <= Len(s)
         /\ \A k \in 1..n : IsSpace(Char(s, i + 5 + k))
         /\ MatchAt(s, i + 6 + n, "compose")
         /\ WordBoundaryAt(s, i + 6 + n + 7)

containerCommandPatterns(s) ==
  \/ MatchDockerSubCommand(s)
  \/ MatchDockerHyphenCompose(s)
  \/ MatchDockerSpaceCompose(s)

(***************************************************************************)
(* Job predicates (workflow package).  A job is a record                   *)
(*   [ID, Name, RunsOn, Steps, Services, Container, LineStart]             *)
(* and a step a record [Uses, Run].                                        *)
(***************************************************************************)
\* IsUbuntuLatest looking only at the first element of a sequence
IsUbuntuLatestFirstItem(j) ==
  CASE j.RunsOn.kind = "nil"    -> FALSE
    [] j.RunsOn.kind = "string" -> j.RunsOn.str = "ubuntu-latest"
    [] j.RunsOn.kind = "seq"    ->
         /\ Len(j.RunsOn.items) > 0
         /\ j.RunsOn.items[1].kind = "string"
         /\ j.RunsOn.items[1].str = "ubuntu-latest"
    [] OTHER                    -> FALSE

IsUbuntuLatest(j) ==
  CASE j.RunsOn.kind = "nil"    -> FALSE
    [] j.RunsOn.kind = "string" -> j.RunsOn.str = "ubuntu-latest"
    [] j.RunsOn.kind = "seq"    ->
         \E i \in 1..Len(j.RunsOn.items) :
           /\ j.RunsOn.items[i].kind = "string"
           /\ j.RunsOn.items[i].str = "ubuntu-latest"
    [] OTHER                    -> FALSE

\* HasDockerCommands matching the script as written, without lower-casing
HasDockerCommandsCaseSensitive(j) ==
  \E i \in 1..Len(j.Steps) :
    /\ j.Steps[i].Run # ""
    /\ containerCommandPatterns(j.Steps[i].Run)

HasDockerCommands(j) ==
  \E i \in 1..Len(j.Steps) :
    /\ j.Steps[i].Run # ""
    /\ containerCommandPatterns(ToLower(j.Steps[i].Run))

HasContainerActions(j) ==
  \E i \in 1..Len(j.Steps) :
    /\ j.Steps[i].Uses # ""
    /\ \E p \in 1..Len(containerActionPrefixes) :
         HasPrefix(j.Steps[i].Uses, containerActionPrefixes[p])

\* HasServices taking an empty structure for an absent one
HasServicesNonEmpty(j) ==
  /\ j.Services.kind # "nil"
  /\ ~(j.Services.kind \in {"map", "seq"} /\ j.Services.size = 0)

HasServices(j) == j.Services.kind # "nil"

HasContainer(j) == j.Container.kind # "nil"

(***************************************************************************)
(* Shell-command extraction.                                               *)
(***************************************************************************)
separators == <<"|", "&&", "||", ";", ">>", "<<", ">", "<">>

commandPrefixes == {"sudo", "env", "time", "nohup", "setsid", "stdbuf"}

\* the trimmed, non-empty pieces of part split at sep
SplitTrimmed(part, sep) ==
  LET split == Split(part, sep)
      trimmed == [i \in 1..Len(split) |-> TrimSpace(split[i])]
  IN SelectSeq(trimmed, LAMBDA s : s # "")

RECURSIVE SplitAll(_, _)
SplitAll(parts, sep) ==
  IF parts = <<>> THEN <<>>
  ELSE SplitTrimmed(Head(parts), sep) \o SplitAll(Tail(parts), sep)

RECURSIVE SplitBySeparators(_, _)
SplitBySeparators(parts, k) ==
  IF k > Len(separators) THEN parts
  ELSE SplitBySeparators(SplitAll(parts, separators[k]), k + 1)

splitCommandLine(line) == SplitBySeparators(<<line>>, 1)

\* the loop over the leading assignments stopping after the first of them
SkipOneAssignment(fields, k) ==
  IF k <= Len(fields) /\ Contains(fields[k], "=") THEN k + 1 ELSE k

\* index of the first field from position k on that does not contain "="
RECURSIVE SkipAssignments(_, _)
SkipAssignments(fields, k) ==
  IF k <= Len(fields) /\ Contains(fields[k], "=")
    THEN SkipAssignments(fields, k + 1)
    ELSE k

\* the loop over the prefixes dropping every field that starts with one
RECURSIVE SkipPrefixesByPrefix(_, _)
SkipPrefixesByPrefix(fields, k) ==
  IF k <= Len(fields) /\ \E p \in commandPrefixes : HasPrefix(fields[k], p)
    THEN SkipPrefixesByPrefix(fields, k + 1)
    ELSE k

\* index of the first field from position k on that is not a command prefix
RECURSIVE SkipPrefixes(_, _)
SkipPrefixes(fields, k) ==
  IF k <= Len(fields) /\ fields[k] \in commandPrefixes
    THEN SkipPrefixes(fields, k + 1)
    ELSE k

extractCommandFromPart(part0) ==
  LET part == TrimSpace(part0)
      fields == Fields(part)
      startIndex == SkipAssignments(fields, 1)
      rest == Fields(Join(SubSeq(fields, startIndex, Len(fields)), " "))
      cmdStartIndex == SkipPrefixes(rest, 1)
  IN IF part = "" \/ Len(fields) = 0 THEN ""
     ELSE IF startIndex > Len(fields) THEN ""
     ELSE IF Len(rest) = 0 THEN ""
     ELSE IF cmdStartIndex > Len(rest) THEN ""
     ELSE rest[cmdStartIndex]

RECURSIVE CommandsOfParts(_)
CommandsOfParts(parts) ==
  IF parts = <<>> THEN <<>>
  ELSE LET cmd == extractCommandFromPart(Head(parts))
       IN (IF cmd # "" THEN <<cmd>> ELSE <<>>) \o CommandsOfParts(Tail(parts))

RECURSIVE CommandsOfLines(_)
CommandsOfLines(lines) ==
  IF lines = <<>> THEN <<>>
  ELSE LET line == TrimSpace(Head(lines))
           here == IF line = "" \/ HasPrefix(line, "#") \/ HasPrefix(line, "#!")
                     THEN <<>>
                     ELSE CommandsOfParts(splitCommandLine(line))
       IN here \o CommandsOfLines(Tail(lines))

extractCommands(script) == CommandsOfLines(Split(script, "\n"))

normalizeCommand(cmd) ==
  IF cmd = "" THEN ""
  ELSE LET parts == Split(cmd, "/")
           base == IF Contains(cmd, "/") THEN parts[Len(parts)] ELSE cmd
       IN TrimSpace(base)

(***************************************************************************)
(* Commands absent from ubuntu-slim.  The table behind IsMissingInSlim is  *)
(* a static set of command names; these members are the ones the tests of  *)
(* GetMissingCommands and the README rely on.                              *)
(***************************************************************************)
missingInSlim == {"docker", "lsof", "go", "npm", "nvm"}

IsMissingInSlim(cmd) == cmd \in missingInSlim

\* getSetupProvidedCommands comparing the whole uses reference with the
\* action name, so that a version suffix defeats the match
getSetupProvidedCommandsExact(j) ==
  UNION { Range(setupActionCommands[a].commands) :
            a \in { b \in 1..Len(setupActionCommands) :
                      \E i \in 1..Len(j.Steps) :
                        /\ j.Steps[i].Uses # ""
                        /\ j.Steps[i].Uses = setupActionCommands[b].prefix } }

getSetupProvidedCommands(j) ==
  UNION { Range(setupActionCommands[a].commands) :
            a \in { b \in 1..Len(setupActionCommands) :
                      \E i \in 1..Len(j.Steps) :
                        /\ j.Steps[i].Uses # ""
                        /\ HasPrefix(j.Steps[i].Uses, setupActionCommands[b].prefix) } }

\* the commands of every step with a script, in step order
RECURSIVE CommandsOfSteps(_)
CommandsOfSteps(steps) ==
  IF steps = <<>> THEN <<>>
  ELSE (IF Head(steps).Run = "" THEN <<>> ELSE extractCommands(Head(steps).Run))
         \o CommandsOfSteps(Tail(steps))

\* the loop body without the seen map
RECURSIVE CollectMissingNoDedup(_, _, _)
CollectMissingNoDedup(cmds, provided, missingCommands) ==
  IF cmds = <<>> THEN missingCommands
  ELSE LET cmdName == normalizeCommand(Head(cmds))
           next == IF cmdName = "" THEN missingCommands
                   ELSE IF cmdName \in provided THEN missingCommands
                   ELSE IF IsMissingInSlim(cmdName)
                     THEN Append(missingCommands, cmdName)
                   ELSE missingCommands
       IN CollectMissingNoDedup(Tail(cmds), provided, next)

\* the loop body of GetMissingCommands over the extracted commands
RECURSIVE CollectMissing(_, _, _)
CollectMissing(cmds, provided, missingCommands) ==
  IF cmds = <<>> THEN missingCommands
  ELSE LET cmdName == normalizeCommand(Head(cmds))
           seen == Range(missingCommands)
           next == IF cmdName = "" THEN missingCommands
                   ELSE IF cmdName \in provided THEN missingCommands
                   ELSE IF IsMissingInSlim(cmdName) /\ cmdName \notin seen
                     THEN Append(missingCommands, cmdName)
                   ELSE missingCommands
       IN CollectMissing(Tail(cmds), provided, next)

GetMissingCommands(j) ==
  IF ~IsUbuntuLatest(j) THEN <<>>
  ELSE CollectMissing(CommandsOfSteps(j.Steps), getSetupProvidedCommands(j), <<>>)

(***************************************************************************)
(* Eligibility (scan package).                                             *)
(***************************************************************************)
\* checkEligibility going on to the other criteria after the runner check
checkEligibilityNoReturn(j) ==
  LET reasons ==
        (IF ~IsUbuntuLatest(j) THEN <<"does not run on ubuntu-latest">> ELSE <<>>)
        \o (IF HasDockerCommands(j) THEN <<"uses Docker commands">> ELSE <<>>)
        \o (IF HasContainerActions(j)
              THEN <<"uses container-based GitHub Actions">> ELSE <<>>)
        \o (IF HasServices(j) THEN <<"uses service containers">> ELSE <<>>)
        \o (IF HasContainer(j) THEN <<"uses container syntax">> ELSE <<>>)
  IN IF Len(reasons) > 0
       THEN [eligible |-> FALSE, reasons |-> reasons]
       ELSE [eligible |-> TRUE, reasons |-> <<>>]

\* checkEligibility returning at the first failing criterion
checkEligibilityFirstOnly(j) ==
  IF ~IsUbuntuLatest(j)
    THEN [eligible |-> FALSE, reasons |-> <<"does not run on ubuntu-latest">>]
  ELSE IF HasDockerCommands(j)
    THEN [eligible |-> FALSE, reasons |-> <<"uses Docker commands">>]
  ELSE IF HasContainerActions(j)
    THEN [eligible |-> FALSE, reasons |-> <<"uses container-based GitHub Actions">>]
  ELSE IF HasServices(j)
    THEN [eligible |-> FALSE, reasons |-> <<"uses service containers">>]
  ELSE IF HasContainer(j)
    THEN [eligible |-> FALSE, reasons |-> <<"uses container syntax">>]
  ELSE [eligible |-> TRUE, reasons |-> <<>>]

\* checkEligibility returning at the runner check without a reason
checkEligibilityNoRunnerReason(j) ==
  IF ~IsUbuntuLatest(j)
    THEN [eligible |-> FALSE, reasons |-> <<>>]
    ELSE checkEligibilityNoReturn(j)

checkEligibility(j) ==
  IF ~IsUbuntuLatest(j)
    THEN [eligible |-> FALSE, reasons |-> <<"does not run on ubuntu-latest">>]
    ELSE LET reasons ==
               (IF HasDockerCommands(j) THEN <<"uses Docker commands">> ELSE <<>>)
               \o (IF HasContainerActions(j)
                     THEN <<"uses container-based GitHub Actions">> ELSE <<>>)
               \o (IF HasServices(j) THEN <<"uses service containers">> ELSE <<>>)
               \o (IF HasContainer(j) THEN <<"uses container syntax">> ELSE <<>>)
         IN IF Len(reasons) > 0
              THEN [eligible |-> FALSE, reasons |-> reasons]
              ELSE [eligible |-> TRUE, reasons |-> <<>>]

(***************************************************************************)
(* yaml.Unmarshal, for the block-style subset of YAML that workflow files  *)
(* are written in: one "key: value" or "key:" per line, nesting by         *)
(* indentation with spaces, "- " list items, flow values [a, b], {} and [],*)
(* plain or quoted scalars, "#" comments.  Block scalars ("|", ">"),       *)
(* anchors and multi-line flow values are outside the subset.              *)
(***************************************************************************)
\* number of leading spaces
RECURSIVE Indent(_)
Indent(line) ==
  IF line # "" /\ Char(line, 1) = " " THEN 1 + Indent(Tail(line)) ELSE 0

\* the text of a line without indentation and trailing comment
Content(line) ==
  LET t == TrimSpace(line)
      c == IndexOf(t, " #")
  IN IF HasPrefix(t, "#") THEN ""
     ELSE IF c = 0 THEN t
     ELSE TrimSpace(SubSeq(t, 1, c - 1))

IsItem(text) == text = "-" \/ HasPrefix(text, "- ")

ItemOf(text) == IF text = "-" THEN "" ELSE TrimSpace(SubSeq(text, 3, Len(text)))

\* "key: value" and "key:" are mapping entries
IsEntry(text) == Contains(text, ": ") \/ HasSuffix(text, ":")

KeyOf(text) ==
  IF Contains(text, ": ") THEN SubSeq(text, 1, IndexOf(text, ": ") - 1)
  ELSE SubSeq(text, 1, Len(text) - 1)

ValueOf(text) ==
  IF Contains(text, ": ")
    THEN TrimSpace(SubSeq(text, IndexOf(text, ": ") + 2, Len(text)))
    ELSE ""

\* a line as the parser sees it: indentation, whether it is blank or a
\* comment, whether a tab follows the indentation, whether it is a "- " list
\* item, its text after the item marker, and the key and value of that text
\* when it is a mapping entry
Row(line) ==
  LET content == Content(line)
      item == IsItem(content)
      text == IF item THEN ItemOf(content) ELSE content
      entry == IsEntry(text)
  IN [indent |-> Indent(line),
      blank |-> content = "",
      tab |-> content # "" /\ Char(line, Indent(line) + 1) = "\t",
      item |-> item,
      text |-> text,
      entry |-> entry,
      key |-> IF entry THEN KeyOf(text) ELSE "",
      value |-> IF entry THEN ValueOf(text) ELSE ""]

Rows(lines) == [i \in 1..Len(lines) |-> Row(lines[i])]

IsQuoted(v) ==
  /\ Len(v) >= 2
  /\ \/ Char(v, 1) = "'" /\ Char(v, Len(v)) = "'"
     \/ Char(v, 1) = "\"" /\ Char(v, Len(v)) = "\""

Unquote(v) == IF IsQuoted(v) THEN SubSeq(v, 2, Len(v) - 1) ELSE v

IsInteger(v) == v # "" /\ \A i \in 1..Len(v) : Char(v, i) \in Chars(DigitChars)

\* a scalar as yaml.v3 resolves it into interface{}
ParseScalar(v) ==
  IF v \in {"", "~", "null"} THEN NilValue
  ELSE IF IsQuoted(v) THEN StringValue(Unquote(v))
  ELSE IF v \in {"true", "false"} THEN BoolValue
  ELSE IF IsInteger(v) THEN IntValue
  ELSE StringValue(v)

\* a scalar decoded into a Go string field
ScalarString(v) == IF v \in {"", "~", "null"} THEN "" ELSE Unquote(v)

\* a one-line value: {} , [a, b] or a scalar
ParseFlow(v) ==
  IF v = "{}" THEN MapValue(0)
  ELSE IF HasPrefix(v, "{") /\ HasSuffix(v, "}") THEN MapValue(1)
  ELSE IF HasPrefix(v, "[") /\ HasSuffix(v, "]")
    THEN LET inner == TrimSpace(SubSeq(v, 2, Len(v) - 1))
             parts == Split(inner, ",")
         IN IF inner = "" THEN SeqValue(<<>>)
            ELSE SeqValue([i \in 1..Len(parts) |-> ParseScalar(TrimSpace(parts[i]))])
  ELSE ParseScalar(v)

Min(S) == CHOOSE x \in S : \A y \in S : x <= y

\* the ascending sequence of the members of a set of integers
RECURSIVE Sorted(_)
Sorted(S) == IF S = {} THEN <<>> ELSE <<Min(S)>> \o Sorted(S \ {Min(S)})

\* the rows directly nested under row i: the rows with content between row
\* i and the next row indented no deeper than it, at the indentation of the
\* first of them
Children(rows, i) ==
  LET closing == {k \in (i + 1)..Len(rows) :
                    ~rows[k].blank /\ rows[k].indent <= rows[i].indent}
      last == IF closing = {} THEN Len(rows) ELSE Min(closing) - 1
      body == {k \in (i + 1)..last : ~rows[k].blank}
  IN IF body = {} THEN <<>>
     ELSE Sorted({k \in body : rows[k].indent = rows[Min(body)].indent})

\* the value of an item of a block sequence
ParseItem(row) == IF row.entry THEN MapValue(1) ELSE ParseFlow(row.text)

\* the value of the entry on row i: its one-line value or its nested block
ParseNode(rows, i) ==
  LET kids == Children(rows, i)
  IN IF rows[i].value # "" THEN ParseFlow(rows[i].value)
     ELSE IF kids = <<>> THEN NilValue
     ELSE IF rows[kids[1]].item
       THEN SeqValue([k \in 1..Len(kids) |-> ParseItem(rows[kids[k]])])
     ELSE MapValue(Len(kids))

\* two of the rows kids are entries of one mapping with the same key
DuplicateKeys(rows, kids) ==
  \E a, b \in 1..Len(kids) :
    /\ a < b
    /\ ~rows[kids[a]].item /\ rows[kids[a]].entry
    /\ ~rows[kids[b]].item /\ rows[kids[b]].entry
    /\ rows[kids[a]].key = rows[kids[b]].key

TopLevel(rows) ==
  Sorted({i \in 1..Len(rows) : ~rows[i].blank /\ rows[i].indent = 0})

\* what the parser rejects: a tab in the indentation, an unclosed flow
\* value, a line that is neither entry nor list item, a repeated key
YamlError(rows) ==
  \/ \E i \in 1..Len(rows) :
       /\ ~rows[i].blank
       /\ \/ rows[i].tab
          \/ Contains(rows[i].text, "[") /\ ~Contains(rows[i].text, "]")
          \/ Contains(rows[i].text, "{") /\ ~Contains(rows[i].text, "}")
          \/ ~rows[i].entry /\ ~rows[i].item
          \/ rows[i].entry /\ DuplicateKeys(rows, Children(rows, i))
  \/ DuplicateKeys(rows, TopLevel(rows))

(***************************************************************************)
(* Workflow files.  A file is [exists, data]: data is its content.         *)
(***************************************************************************)
NoFile == [exists |-> FALSE, data |-> ""]

File(text) == [exists |-> TRUE, data |-> text]

\* the row among kids that carries key, 0 if none
EntryLine(rows, kids, key) ==
  LET hits == {k \in Range(kids) : rows[k].entry /\ rows[k].key = key}
  IN IF hits = {} THEN 0 ELSE Min(hits)

\* lineIndent of findRunsOnLineNumber and UpdateRunsOn: the loop has no
\* break, so every space and tab of the line is counted
RECURSIVE lineIndent(_)
lineIndent(line) ==
  IF line = "" THEN 0
  ELSE (CASE Char(line, 1) = " "  -> 1
          [] Char(line, 1) = "\t" -> 4
          [] OTHER                -> 0) + lineIndent(Tail(line))

\* the loop of findRunsOnLineNumber from line i on
RECURSIVE FindRunsOnFrom(_, _, _, _, _, _)
FindRunsOnFrom(lines, jobName, i, inJobsSection, inTargetJob, indentLevel) ==
  IF i > Len(lines) THEN 0
  ELSE
    LET line == lines[i]
        trimmed == TrimSpace(line)
        ind == lineIndent(line)
    IN IF trimmed = "jobs:"
         THEN FindRunsOnFrom(lines, jobName, i + 1, TRUE, inTargetJob, indentLevel)
       ELSE IF ~inJobsSection
         THEN FindRunsOnFrom(lines, jobName, i + 1, inJobsSection, inTargetJob, indentLevel)
       ELSE IF ind = 0 /\ trimmed # "" /\ ~HasSuffix(trimmed, ":")
         THEN 0
       ELSE IF HasPrefix(trimmed, jobName \o ":")
         THEN FindRunsOnFrom(lines, jobName, i + 1, inJobsSection, TRUE, ind)
       ELSE IF inTargetJob /\ ind <= indentLevel /\ trimmed # ""
                 /\ ~HasPrefix(trimmed, " ")
         THEN 0
       ELSE IF inTargetJob /\ Contains(trimmed, "runs-on:")
         THEN i
       ELSE FindRunsOnFrom(lines, jobName, i + 1, inJobsSection, inTargetJob, indentLevel)

findRunsOnLineNumber(lines, jobName) ==
  FindRunsOnFrom(lines, jobName, 1, FALSE, FALSE, 0)

\* the string field of the mapping entry on row k, "" when k is 0
StringField(rows, k) == IF k = 0 THEN "" ELSE ScalarString(rows[k].value)

\* the step that starts on item row k: its mapping has the entry of the item
\* row itself and the rows nested under it
StepOf(rows, entries) ==
  [Uses |-> StringField(rows, EntryLine(rows, entries, "uses")),
   Run |-> StringField(rows, EntryLine(rows, entries, "run"))]

DecodeStep(rows, k) == StepOf(rows, <<k>> \o Children(rows, k))

DecodeSteps(rows, stepRows) ==
  [k \in 1..Len(stepRows) |-> DecodeStep(rows, stepRows[k])]

\* the item rows under the steps: entry on row k, <<>> when there is none
StepRowsAt(rows, k) ==
  IF k = 0 THEN <<>>
  ELSE IF rows[k].value # "" THEN <<>>
  ELSE Children(rows, k)

StepRows(rows, kids) == StepRowsAt(rows, EntryLine(rows, kids, "steps"))

\* the interface{} field on row k, nil when k is 0
FieldAt(rows, k) == IF k = 0 THEN NilValue ELSE ParseNode(rows, k)

\* the field key of the job whose entries are the rows kids
JobField(rows, kids, key) == FieldAt(rows, EntryLine(rows, kids, key))

\* the rows nested under the job header h
JobKids(rows, h) == IF rows[h].value # "" THEN <<>> ELSE Children(rows, h)

\* the value of a job is a mapping (or null), which is what yaml.Marshal
\* hands back to yaml.Unmarshal(jobBytes, &job)
IsMapping(rows, h, kids) ==
  IF rows[h].value # ""
    THEN ParseFlow(rows[h].value).kind \in {"nil", "map"}
    ELSE kids = <<>> \/ ~rows[kids[1]].item

\* a step that is not a mapping
BadStep(row) == row.text # "" /\ ~row.entry

\* yaml.Unmarshal(jobBytes, &job) fails: name: is not a scalar, or steps: is
\* not a sequence of mappings
JobDecodeError(rows, kids) ==
  \/ JobField(rows, kids, "name").kind \in {"seq", "map"}
  \/ JobField(rows, kids, "steps").kind \notin {"nil", "seq"}
  \/ \E k \in Range(StepRows(rows, kids)) : BadStep(rows[k])

\* the job LoadWorkflow stores under id for the header row h with entries kids
DecodeJob(lines, rows, id, kids) ==
  [ID |-> id,
   Name |-> IF StringField(rows, EntryLine(rows, kids, "name")) = "" THEN id
            ELSE StringField(rows, EntryLine(rows, kids, "name")),
   RunsOn |-> JobField(rows, kids, "runs-on"),
   Steps |-> DecodeSteps(rows, StepRows(rows, kids)),
   Services |-> JobField(rows, kids, "services"),
   Container |-> JobField(rows, kids, "container"),
   LineStart |-> findRunsOnLineNumber(lines, id)]

\* the header rows of workflowData["jobs"].(map[string]any), <<>> when the
\* document has no jobs mapping
JobHeaders(rows) ==
  LET jobsLine == EntryLine(rows, TopLevel(rows), "jobs")
      kids == IF jobsLine = 0 THEN <<>> ELSE Children(rows, jobsLine)
  IN IF jobsLine = 0 THEN <<>>
     ELSE IF rows[jobsLine].value # "" THEN <<>>
     ELSE IF kids # <<>> /\ rows[kids[1]].item THEN <<>>
     ELSE kids

\* the header rows of the jobs LoadWorkflow keeps: a job whose value is not
\* a mapping or does not decode into Job is left out
KeptHeaders(rows, headers) ==
  {h \in Range(headers) :
     /\ IsMapping(rows, h, JobKids(rows, h))
     /\ ~JobDecodeError(rows, JobKids(rows, h))}

JobsOf(lines, rows, kept) ==
  [id \in {rows[h].key : h \in kept} |->
     DecodeJob(lines, rows, id,
               JobKids(rows, CHOOSE h \in kept : rows[h].key = id))]

LoadRows(lines, rows, path) ==
  IF YamlError(rows)
    THEN [err |-> TRUE, wf |-> [Path |-> path, Jobs |-> <<>>]]
    ELSE [err |-> FALSE,
          wf |-> [Path |-> path,
                  Jobs |-> JobsOf(lines, rows, KeptHeaders(rows, JobHeaders(rows)))]]

LoadLines(lines, path) == LoadRows(lines, Rows(lines), path)

\* LoadWorkflow: [err, wf] with wf = [Path, Jobs], Jobs a function of job id
LoadWorkflow(files, path) ==
  IF ~files[path].exists
    THEN [err |-> TRUE, wf |-> [Path |-> path, Jobs |-> <<>>]]
    ELSE LoadLines(Split(files[path].data, "\n"), path)

\* the leading spaces and tabs of a line
RECURSIVE originalIndent(_)
originalIndent(line) ==
  IF line # "" /\ Char(line, 1) \in {" ", "\t"}
    THEN Char(line, 1) \o originalIndent(Tail(line))
    ELSE ""

\* the loop of UpdateRunsOn from line i on: the index of the line it
\* rewrites, 0 if it leaves the loop without an update
RECURSIVE UpdateLineFrom(_, _, _, _, _, _)
UpdateLineFrom(lines, jobID, i, inJobsSection, inTargetJob, indentLevel) ==
  IF i > Len(lines) THEN 0
  ELSE
    LET line == lines[i]
        trimmed == TrimSpace(line)
        ind == lineIndent(line)
    IN IF trimmed = "jobs:"
         THEN UpdateLineFrom(lines, jobID, i + 1, TRUE, inTargetJob, indentLevel)
       ELSE IF ~inJobsSection
         THEN UpdateLineFrom(lines, jobID, i + 1, inJobsSection, inTargetJob, indentLevel)
       ELSE IF ind = 0 /\ trimmed # "" /\ ~HasSuffix(trimmed, ":")
         THEN 0
       ELSE IF HasPrefix(trimmed, jobID \o ":")
         THEN UpdateLineFrom(lines, jobID, i + 1, inJobsSection, TRUE, ind)
       ELSE IF inTargetJob /\ ind <= indentLevel /\ trimmed # ""
                 /\ ~HasPrefix(trimmed, " ")
         THEN 0
       ELSE IF inTargetJob /\ Contains(trimmed, "runs-on:")
                 /\ Contains(trimmed, "ubuntu-latest")
         THEN i
       ELSE UpdateLineFrom(lines, jobID, i + 1, inJobsSection, inTargetJob, indentLevel)

\* the file after UpdateRunsOn rewrote line i: the indentation is kept
RewriteLine(lines, i, newRunsOn) ==
  Join([lines EXCEPT ![i] = originalIndent(lines[i]) \o "runs-on: " \o newRunsOn],
       "\n")

\* UpdateRunsOn once the loop has ended at line i (0: no line to rewrite)
WriteUpdate(files, filePath, lines, i, newRunsOn, writeOK) ==
  IF i = 0 THEN [err |-> TRUE, files |-> files]
  ELSE IF ~writeOK THEN [err |-> TRUE, files |-> files]
  ELSE [err |-> FALSE,
        files |-> [files EXCEPT ![filePath] = File(RewriteLine(lines, i, newRunsOn))]]

UpdateLines(files, filePath, lines, jobID, newRunsOn, writeOK) ==
  WriteUpdate(files, filePath, lines,
              UpdateLineFrom(lines, jobID, 1, FALSE, FALSE, 0), newRunsOn, writeOK)

\* UpdateRunsOn: [err, files]; writeOK is the outcome of os.WriteFile
UpdateRunsOn(files, filePath, jobID, newRunsOn, writeOK) ==
  IF ~files[filePath].exists THEN [err |-> TRUE, files |-> files]
  ELSE UpdateLines(files, filePath, Split(files[filePath].data, "\n"), jobID,
                   newRunsOn, writeOK)

(***************************************************************************)
(* api: the GitHub Actions REST API as GetJobDuration reads it.            *)
(* A reply of getWorkflowRuns is [err, runs]; a run is [Status,            *)
(* Conclusion, err, Jobs], err being the failure of the jobs request of    *)
(* that run; a job entry is [Name, StartedAt, CompletedAt].                *)
(***************************************************************************)
\* strings.EqualFold on ASCII
EqualFold(a, b) == ToLower(a) = ToLower(b)

IsDigits(s) == \A i \in 1..Len(s) : Char(s, i) \in Chars(DigitChars)

DigitValue(c) == (CHOOSE i \in 1..10 : Char(DigitChars, i) = c) - 1

\* strconv.Atoi of a string of digits
RECURSIVE Atoi(_)
Atoi(s) ==
  IF s = "" THEN 0
  ELSE 10 * Atoi(SubSeq(s, 1, Len(s) - 1)) + DigitValue(Char(s, Len(s)))

\* time.Parse(time.RFC3339, s) for UTC timestamps "YYYY-MM-DDTHH:MM:SSZ" of
\* one calendar month: [ok, secs], secs counted from the start of the month
ParseRFC3339(s) ==
  LET wellFormed ==
        /\ Len(s) = 20
        /\ Char(s, 5) = "-" /\ Char(s, 8) = "-" /\ Char(s, 11) = "T"
        /\ Char(s, 14) = ":" /\ Char(s, 17) = ":" /\ Char(s, 20) = "Z"
        /\ IsDigits(SubSeq(s, 1, 4)) /\ IsDigits(SubSeq(s, 6, 7))
        /\ IsDigits(SubSeq(s, 9, 10)) /\ IsDigits(SubSeq(s, 12, 13))
        /\ IsDigits(SubSeq(s, 15, 16)) /\ IsDigits(SubSeq(s, 18, 19))
        /\ Atoi(SubSeq(s, 6, 7)) \in 1..12
        /\ Atoi(SubSeq(s, 9, 10)) \in 1..31
        /\ Atoi(SubSeq(s, 12, 13)) \in 0..23
        /\ Atoi(SubSeq(s, 15, 16)) \in 0..59
        /\ Atoi(SubSeq(s, 18, 19)) \in 0..59
  IN IF ~wellFormed THEN [ok |-> FALSE, secs |-> 0]
     ELSE [ok |-> TRUE,
           secs |-> ((Atoi(SubSeq(s, 9, 10)) * 24 + Atoi(SubSeq(s, 12, 13))) * 60
                      + Atoi(SubSeq(s, 15, 16))) * 60 + Atoi(SubSeq(s, 18, 19))]

\* parseJobDuration: [err, secs], the duration in whole seconds
parseJobDuration(j) ==
  LET startTime == ParseRFC3339(j.StartedAt)
      completedTime == ParseRFC3339(j.CompletedAt)
  IN IF j.StartedAt = "" \/ j.CompletedAt = "" THEN [err |-> TRUE, secs |-> 0]
     ELSE IF ~startTime.ok THEN [err |-> TRUE, secs |-> 0]
     ELSE IF ~completedTime.ok THEN [err |-> TRUE, secs |-> 0]
     ELSE [err |-> FALSE, secs |-> completedTime.secs - startTime.secs]

\* getJobDurationFromRun with the display name tried first over the whole run
getJobDurationFromRunNameFirst(run, jobID, jobDisplayName) ==
  LET byName == {k \in 1..Len(run.Jobs) : EqualFold(run.Jobs[k].Name, jobDisplayName)}
      byID == {k \in 1..Len(run.Jobs) : EqualFold(run.Jobs[k].Name, jobID)}
  IN IF run.err THEN [err |-> TRUE, secs |-> 0]
     ELSE IF byName # {} THEN parseJobDuration(run.Jobs[Min(byName)])
     ELSE IF byID # {} THEN parseJobDuration(run.Jobs[Min(byID)])
     ELSE [err |-> TRUE, secs |-> 0]

\* getJobDurationFromRun: the first entry whose name matches the display
\* name or the job id
getJobDurationFromRun(run, jobID, jobDisplayName) ==
  LET hits == {k \in 1..Len(run.Jobs) :
                 \/ EqualFold(run.Jobs[k].Name, jobDisplayName)
                 \/ EqualFold(run.Jobs[k].Name, jobID)}
  IN IF run.err THEN [err |-> TRUE, secs |-> 0]
     ELSE IF hits = {} THEN [err |-> TRUE, secs |-> 0]
     ELSE parseJobDuration(run.Jobs[Min(hits)])

\* the loop of GetJobDuration over runs[k..]
RECURSIVE DurationFromRuns(_, _, _, _)
DurationFromRuns(runs, k, jobID, jobDisplayName) ==
  IF k > Len(runs) THEN [err |-> TRUE, secs |-> 0]
  ELSE IF runs[k].Status # "completed" \/ runs[k].Conclusion # "success"
    THEN DurationFromRuns(runs, k + 1, jobID, jobDisplayName)
  ELSE IF getJobDurationFromRun(runs[k], jobID, jobDisplayName).err
    THEN DurationFromRuns(runs, k + 1, jobID, jobDisplayName)
  ELSE getJobDurationFromRun(runs[k], jobID, jobDisplayName)

\* GetJobDuration: reply is what getWorkflowRuns returns for workflowPath
GetJobDuration(reply, jobID, jobDisplayName) ==
  IF reply.err THEN [err |-> TRUE, secs |-> 0]
  ELSE IF Len(reply.runs) = 0 THEN [err |-> TRUE, secs |-> 0]
  ELSE DurationFromRuns(reply.runs, 1, jobID, jobDisplayName)

(***************************************************************************)
(* formatDuration, with d in whole seconds.                                *)
(***************************************************************************)
\* the decimal digits of a natural number
RECURSIVE Digits(_)
Digits(n) ==
  IF n < 10 THEN Char(DigitChars, n + 1)
  ELSE Digits(n \div 10) \o Char(DigitChars, (n % 10) + 1)

\* fmt.Sprintf("%d", n)
Itoa(n) == IF n < 0 THEN "-" \o Digits(0 - n) ELSE Digits(n)

\* formatDuration without the branches for a zero remainder
formatDurationNoExact(d) ==
  IF d < 60 THEN Itoa(d) \o "s"
  ELSE IF d < 3600 THEN Itoa(d \div 60) \o "m" \o Itoa(d % 60) \o "s"
  ELSE Itoa(d \div 3600) \o "h" \o Itoa((d \div 60) % 60) \o "m"

formatDuration(d) ==
  IF d < 60 THEN Itoa(d) \o "s"
  ELSE IF d < 3600
    THEN IF d % 60 = 0 THEN Itoa(d \div 60) \o "m"
         ELSE Itoa(d \div 60) \o "m" \o Itoa(d % 60) \o "s"
  ELSE IF (d \div 60) % 60 = 0 THEN Itoa(d \div 3600) \o "h"
       ELSE Itoa(d \div 3600) \o "h" \o Itoa((d \div 60) % 60) \o "m"

(***************************************************************************)
(* Inputs: the jobs handed to the functions.                               *)
(***************************************************************************)
Step(uses, run) == [Uses |-> uses, Run |-> run]

Job(runsOn, steps, services, container) ==
  [ID |-> "build", Name |-> "build", RunsOn |-> runsOn, Steps |-> steps,
   Services |-> services, Container |-> container, LineStart |-> 0]

RunnerStrings ==
  {"ubuntu-latest", "ubuntu-22.04", "", "  ubuntu-latest  ", "ubuntu-latest-extra"}

RunnerItems ==
  {StringValue("ubuntu-latest"), StringValue("ubuntu-22.04"), IntValue}

RunnerSet ==
  {NilValue, IntValue, MapValue(1)}
    \cup {StringValue(s) : s \in RunnerStrings}
    \cup {SeqValue(xs) : xs \in SeqUpTo(RunnerItems, MaxRunsOnItems)}

\* services: / container: values: absent, empty map, map, empty list, scalar
FieldValues ==
  {NilValue, MapValue(0), MapValue(1), SeqValue(<<>>), StringValue("node:20")}

EligSteps ==
  {Step("", ""),
   Step("", "echo hi"),
   Step("", "docker build -t app ."),
   Step("", "echo 'dockerhub.com'"),
   Step("actions/checkout@v4", ""),
   Step("docker://alpine:3.18", ""),
   Step("docker/build-push-action@v6", ""),
   Step("myorg/docker-helper-action@v1", ""),
   Step("dockerhub-tools/lint@v1", "")}

\* the steps that decide one criterion each
CoreSteps ==
  {Step("", "echo hi"),
   Step("", "docker build -t app ."),
   Step("docker/build-push-action@v6", "")}

CoreFieldValues == {NilValue, MapValue(0)}

CoreRunners ==
  {StringValue("ubuntu-latest"), StringValue("ubuntu-22.04"),
   SeqValue(<<StringValue("ubuntu-22.04"), StringValue("ubuntu-latest")>>)}

\* every runner shape, every step list, every services/container shape,
\* each against the core values of the other fields
EligJobs ==
  {Job(r, ss, sv, ct) :
     r \in RunnerSet, ss \in SeqUpTo(CoreSteps, MaxSteps),
     sv \in CoreFieldValues, ct \in CoreFieldValues}
  \cup
  {Job(r, ss, sv, ct) :
     r \in CoreRunners, ss \in SeqUpTo(EligSteps, MaxSteps),
     sv \in CoreFieldValues, ct \in CoreFieldValues}
  \cup
  {Job(r, ss, sv, ct) :
     r \in CoreRunners, ss \in SeqUpTo(CoreSteps, MaxSteps),
     sv \in FieldValues, ct \in FieldValues}

\* scripts put together from at most n pieces
RECURSIVE Compose(_, _)
Compose(pieces, n) ==
  IF n = 0 THEN {""}
  ELSE LET shorter == Compose(pieces, n - 1)
       IN shorter \cup {s \o p : s \in shorter, p \in pieces}

ScriptPieces == {"docker", "Docker", " ", "-", "run", "compose", "x", "#"}

DockerScripts == Compose(ScriptPieces, MaxPieces)

DockerStepPairs ==
  {<<Step("", a), Step("", b)>> :
     a \in {"", "echo hi", "docker\tpush"}, b \in {"", "DOCKER-COMPOSE up", "dockerhub.com"}}

DockerJobs ==
  {Job(StringValue("ubuntu-latest"), <<Step("", s)>>, NilValue, NilValue) :
     s \in DockerScripts}
  \cup {Job(StringValue("ubuntu-latest"), ss, NilValue, NilValue) :
          ss \in DockerStepPairs}

CmdSteps ==
  {Step("actions/checkout@v4", ""),
   Step("actions/setup-go@v5", ""),
   Step("actions/setup-node@v4", ""),
   Step("", "echo hi"),
   Step("", "go test ./..."),
   Step("", "sudo /usr/bin/docker ps | lsof -i"),
   Step("", "npm ci && go build\n# nvm use\nlsof -i :80; GOFLAGS=-v go vet")}

MissingJobs ==
  {Job(r, ss, NilValue, NilValue) :
     r \in {StringValue("ubuntu-latest"), StringValue("ubuntu-22.04")},
     ss \in SeqUpTo(CmdSteps, MaxCmdSteps)}

NoResult ==
  [isUbuntuLatest |-> FALSE, hasDockerCommands |-> FALSE,
   hasContainerActions |-> FALSE, hasServices |-> FALSE,
   hasContainer |-> FALSE, eligible |-> FALSE, reasons |-> <<>>,
   missing |-> <<>>]

(***************************************************************************)
(* Inputs: workflow documents, as text.                                    *)
(***************************************************************************)
MaxJobs == 2           \* jobs per workflow document
MaxRuns == 2           \* workflow runs in a reply of the API

DocHeader == "name: CI\non: push\n\njobs:\n"

JobBlocks == <<
  [id |-> "build",
   text |-> "  build:\n"
         \o "    runs-on: ubuntu-latest\n"
         \o "    steps:\n"
         \o "      - uses: actions/checkout@v4\n"
         \o "      - run: echo hi\n"],
  [id |-> "lint",
   text |-> "  # static checks\n"
         \o "  lint:\n"
         \o "    name: Lint code\n"
         \o "    runs-on: [ubuntu-latest]\n"
         \o "    steps:\n"
         \o "      - name: vet\n"
         \o "        run: echo vet\n"],
  [id |-> "test",
   text |-> "  test:\n"
         \o "    runs-on: ubuntu-latest\n"
         \o "    steps:\n"
         \o "      - run: go test ./...\n"],
  [id |-> "image",
   text |-> "  image:\n"
         \o "    runs-on: ubuntu-latest\n"
         \o "    steps:\n"
         \o "      - run: docker build .\n"],
  [id |-> "db",
   text |-> "  db:\n"
         \o "    runs-on: ubuntu-latest\n"
         \o "    services:\n"
         \o "      postgres:\n"
         \o "        image: postgres:16\n"
         \o "    steps:\n"
         \o "      - run: echo hi\n"],
  [id |-> "box",
   text |-> "  box:\n"
         \o "    container: node:20\n"
         \o "    runs-on: ubuntu-latest\n"
         \o "    steps:\n"
         \o "      - run: echo hi\n"],
  [id |-> "mac",
   text |-> "  mac:\n"
         \o "    runs-on: macos-latest\n"
         \o "    steps:\n"
         \o "      - run: echo hi\n"],
  [id |-> "multi",
   text |-> "  multi:\n"
         \o "    runs-on:\n"
         \o "      - ubuntu-latest\n"
         \o "    steps:\n"
         \o "      - run: echo hi\n"]
>>

\* the blocks of sel, in the order of JobBlocks
RECURSIVE BlocksText(_)
BlocksText(sel) ==
  IF sel = {} THEN ""
  ELSE JobBlocks[Min(sel)].text \o BlocksText(sel \ {Min(sel)})

DocOf(sel) == DocHeader \o BlocksText(sel)

JobSelections ==
  {sel \in SUBSET (1..Len(JobBlocks)) : Cardinality(sel) \in 1..MaxJobs}

Docs == {DocOf(sel) : sel \in JobSelections}

\* a document the parser rejects, and one without jobs
BrokenDoc == "name: CI\njobs:\n  build: [\n"

NoJobsDoc == "name: CI\non: push\n"

(***************************************************************************)
(* Inputs: the files, the arguments and the API replies of a run.          *)
(***************************************************************************)
MaxPaths == 2          \* workflow files named on the command line

CI == ".github/workflows/ci.yml"

Release == ".github/workflows/release.yaml"

Notes == ".github/workflows/NOTES.md"

Paths == {CI, Release, Notes}

\* the order in which filepath.Walk visits the directory: lexical
WalkOrder == <<Notes, CI, Release>>

PathArgs == SeqUpTo(Paths, MaxPaths)

Files(ci, release) ==
  [p \in Paths |-> IF p = CI THEN ci
                   ELSE IF p = Release THEN release
                   ELSE File(DocOf({1}))]

NoFiles == [p \in Paths |-> NoFile]

\* the build job of DocOf({1, 2}) after a services block was added to it
ServicesAddedDoc ==
  DocHeader
    \o "  build:\n"
    \o "    runs-on: ubuntu-latest\n"
    \o "    services:\n"
    \o "      redis:\n"
    \o "        image: redis\n"
    \o "    steps:\n"
    \o "      - uses: actions/checkout@v4\n"
    \o "      - run: echo hi\n"
    \o JobBlocks[2].text

\* the build job with a comment that mentions its runner
CommentedDoc ==
  DocHeader
    \o "  build:\n"
    \o "    # runs-on: ubuntu-latest for now\n"
    \o "    runs-on: ubuntu-latest\n"
    \o "    steps:\n"
    \o "      - uses: actions/checkout@v4\n"
    \o "      - run: echo hi\n"

\* a job whose permissions block stands above its runs-on line
KeysFirstDoc ==
  DocHeader
    \o "  build:\n"
    \o "    permissions:\n"
    \o "      contents: read\n"
    \o "    runs-on: ubuntu-latest\n"
    \o "    steps:\n"
    \o "      - run: echo hi\n"

\* the job multi followed by a job whose header carries a comment
TrailingDoc ==
  DocHeader
    \o JobBlocks[8].text
    \o "  test: # unit tests\n"
    \o "    runs-on: ubuntu-latest\n"
    \o "    steps:\n"
    \o "      - run: go test ./...\n"

T0 == "2024-05-01T10:00:00Z"

DisplayName(k) == IF JobBlocks[k].id = "lint" THEN "Lint code" ELSE JobBlocks[k].id

\* one entry per job of JobBlocks, all started at T0 and completed at t
Entries(t) ==
  [k \in 1..Len(JobBlocks) |->
     [Name |-> DisplayName(k), StartedAt |-> T0, CompletedAt |-> t]]

Run(status, conclusion, err, jobs) ==
  [Status |-> status, Conclusion |-> conclusion, err |-> err, Jobs |-> jobs]

QuickRun == Run("completed", "success", FALSE, Entries("2024-05-01T10:04:30Z"))

SlowRun == Run("completed", "success", FALSE, Entries("2024-05-01T10:20:00Z"))

\* a run of exactly fifteen minutes
ExactRun == Run("completed", "success", FALSE, Entries("2024-05-01T10:15:00Z"))

RunKinds ==
  {QuickRun,
   SlowRun,
   Run("completed", "failure", FALSE, Entries("2024-05-01T10:00:45Z")),
   Run("in_progress", "", FALSE, Entries("")),
   Run("completed", "success", FALSE, <<>>),
   Run("completed", "success", TRUE, <<>>),
   Run("completed", "success", FALSE,
       <<[Name |-> "LINT", StartedAt |-> T0, CompletedAt |-> "2024-05-01T11:01:00Z"],
         [Name |-> "Lint code", StartedAt |-> T0, CompletedAt |-> "2024-05-01T10:00:30Z"],
         [Name |-> "Build", StartedAt |-> T0, CompletedAt |-> "yesterday"]>>)}

Reply(runs) == [err |-> FALSE, runs |-> runs]

FailedReply == [err |-> TRUE, runs |-> <<>>]

Replies == {Reply(runs) : runs \in SeqUpTo(RunKinds, MaxRuns)} \cup {FailedReply}

\* the reply for the runs of ci.yml is r; the other workflows have QuickRun
World(r) == [p \in Paths |-> IF p = CI THEN r ELSE Reply(<<QuickRun>>)]

Modes == {<<"scan", FALSE>>, <<"fix", FALSE>>, <<"fix", TRUE>>}

NoEdit == [pending |-> FALSE, path |-> CI, file |-> NoFile]

Edits ==
  {[pending |-> TRUE, path |-> CI, file |-> f] :
     f \in {NoFile, File(BrokenDoc), File(DocOf({2})), File(ServicesAddedDoc),
            File(DocOf({2, 7}))}}

Scenario(fs, dir, world, ready, mode, paths, all, skip, ed) ==
  [files |-> fs, dirExists |-> dir, api |-> world, apiReady |-> ready,
   cmd |-> mode[1],
   args |-> [paths |-> paths, scanAll |-> all, skipDuration |-> skip,
             force |-> mode[2]],
   edit |-> ed]

\* every document, scanned alone
DocScenarios ==
  {Scenario(Files(File(d), File(DocOf({1}))), TRUE, World(r), "ok", m,
            <<CI>>, FALSE, FALSE, NoEdit) :
     d \in Docs, r \in {Reply(<<QuickRun>>), Reply(<<SlowRun>>)}, m \in Modes}

\* every reply of the API
ApiScenarios ==
  {Scenario(Files(File(DocOf({1, 2})), File(DocOf({1}))), TRUE, World(r), "ok",
            m, <<CI>>, FALSE, FALSE, NoEdit) :
     r \in Replies \cup {Reply(<<ExactRun>>)}, m \in {<<"scan", FALSE>>, <<"fix", FALSE>>}}
  \cup
  {Scenario(Files(File(DocOf({1, 2})), File(DocOf({1}))), TRUE,
            World(Reply(<<QuickRun>>)), ready, m, <<CI>>, FALSE, skip, NoEdit) :
     ready \in {"ok", "no repository", "no client"}, skip \in BOOLEAN, m \in Modes}

\* every choice of files to scan
PathScenarios ==
  {Scenario(Files(ci, rel), TRUE, World(Reply(<<QuickRun>>)), "ok", m,
            pa[1], pa[2], FALSE, NoEdit) :
     ci \in {File(DocOf({1, 4})), File(NoJobsDoc), NoFile},
     rel \in {File(DocOf({2})), File(BrokenDoc), NoFile},
     m \in {<<"scan", FALSE>>, <<"fix", FALSE>>},
     pa \in {<<paths, FALSE>> : paths \in PathArgs}
              \cup {<<<<>>, TRUE>>, <<<<CI>>, TRUE>>}}
  \cup
  {Scenario(NoFiles, dir, World(Reply(<<QuickRun>>)), "ok", m,
            <<>>, TRUE, FALSE, NoEdit) :
     dir \in BOOLEAN, m \in Modes}

\* a file changes between the scan and the update of fix
EditScenarios ==
  {Scenario(Files(File(d), File(DocOf({1}))), TRUE, World(Reply(<<QuickRun>>)),
            "ok", <<"fix", f>>, <<CI>>, FALSE, FALSE, ed) :
     d \in {DocOf({1}), DocOf({1, 2})}, f \in BOOLEAN, ed \in Edits}

\* a job whose block mentions the runner in a comment, and a job header
\* that carries a comment
CommentScenarios ==
  {Scenario(Files(File(d), File(DocOf({1}))), TRUE,
            World(Reply(<<QuickRun>>)), "ok", m, <<CI>>, FALSE, FALSE, NoEdit) :
     d \in {CommentedDoc, TrailingDoc}, m \in Modes}

Scenarios ==
  DocScenarios \cup ApiScenarios \cup PathScenarios \cup EditScenarios
    \cup CommentScenarios

IdleJob == Job(NilValue, <<>>, NilValue, NilValue)

EmptyResult == [Candidates |-> <<>>, IneligibleJobs |-> <<>>]

NoReport == [safe |-> <<>>, warning |-> <<>>]

\* the command before its first step
Fresh ==
  /\ pc = "start"
  /\ workflows = <<>>
  /\ wi = 0
  /\ left = {}
  /\ result = EmptyResult
  /\ fetch = <<>>
  /\ scanErr = FALSE
  /\ report = NoReport
  /\ jobsToUpdate = <<>>
  /\ skippedJobs = <<>>
  /\ todo = <<>>
  /\ curPath = ""
  /\ updatedCount = 0
  /\ errorCount = 0
  /\ updated = <<>>
  /\ visits = <<>>
  /\ exit = -1

\* no command is run: the functions are applied to one job
PipelineIdle ==
  /\ disk = NoFiles
  /\ dirExists = FALSE
  /\ api = World(FailedReply)
  /\ apiReady = "ok"
  /\ command = "none"
  /\ args = [paths |-> <<>>, scanAll |-> FALSE, skipDuration |-> TRUE, force |-> FALSE]
  /\ edit = NoEdit
  /\ Fresh

\* formatDuration is not being applied
NoDuration ==
  /\ dur = 0
  /\ shown = ""

NoUpdate == [called |-> FALSE, writeOK |-> FALSE, err |-> FALSE, before |-> NoFiles]

\* extractCommands and UpdateRunsOn are not being applied on their own
NoCall ==
  /\ shell = ""
  /\ extracted = <<>>
  /\ again = <<>>
  /\ target = ""
  /\ edited = NoUpdate

(***************************************************************************)
(* The functions applied to one job, in the order Scan uses them: the job  *)
(* predicates, checkEligibility, GetMissingCommands.                       *)
(***************************************************************************)
InitJob ==
  /\ job \in EligJobs
  /\ res = NoResult
  /\ jpc = "input"
  /\ NoDuration
  /\ NoCall
  /\ PipelineIdle

CallPredicates ==
  /\ jpc = "input"
  /\ res' = [res EXCEPT !.isUbuntuLatest = IsUbuntuLatest(job),
                        !.hasDockerCommands = HasDockerCommands(job),
                        !.hasContainerActions = HasContainerActions(job),
                        !.hasServices = HasServices(job),
                        !.hasContainer = HasContainer(job)]
  /\ jpc' = "predicates"
  /\ UNCHANGED <<job, dur, shown, callVars, envVars, scanVars, fixVars>>

CallCheckEligibility ==
  /\ jpc = "predicates"
  /\ LET r == checkEligibility(job)
     IN res' = [res EXCEPT !.eligible = r.eligible, !.reasons = r.reasons]
  /\ jpc' = "checked"
  /\ UNCHANGED <<job, dur, shown, callVars, envVars, scanVars, fixVars>>

CallGetMissingCommands ==
  /\ jpc = "checked"
  /\ res' = [res EXCEPT !.missing = GetMissingCommands(job)]
  /\ jpc' = "done"
  /\ UNCHANGED <<job, dur, shown, callVars, envVars, scanVars, fixVars>>

InitDocker ==
  /\ job \in DockerJobs
  /\ res = NoResult
  /\ jpc = "input"
  /\ NoDuration
  /\ NoCall
  /\ PipelineIdle

InitMissing ==
  /\ job \in MissingJobs
  /\ res = NoResult
  /\ jpc = "input"
  /\ NoDuration
  /\ NoCall
  /\ PipelineIdle

NextJob ==
  \/ CallPredicates
  \/ CallCheckEligibility
  \/ CallGetMissingCommands

SpecJob == InitJob /\ [][NextJob]_vars

SpecDocker == InitDocker /\ [][NextJob]_vars

SpecMissing == InitMissing /\ [][NextJob]_vars

(***************************************************************************)
(* formatDuration applied to one duration.                                 *)
(***************************************************************************)
InitDuration ==
  /\ job = IdleJob
  /\ res = NoResult
  /\ jpc = "duration"
  /\ dur \in 0..MaxSeconds
  /\ shown = ""
  /\ NoCall
  /\ PipelineIdle

CallFormatDuration ==
  /\ jpc = "duration"
  /\ shown' = formatDuration(dur)
  /\ jpc' = "formatted"
  /\ UNCHANGED <<job, res, dur, callVars, envVars, scanVars, fixVars>>

NextDuration == CallFormatDuration

SpecDuration == InitDuration /\ [][NextDuration]_vars

(***************************************************************************)
(* extractCommands applied to one script, and then to each command it      *)
(* returned.                                                               *)
(***************************************************************************)
ScriptWords ==
  {"ls", "A=1", "sudo", "env", "sudoers", "|", "&&", ";", ">", "#", "\n"}

\* scripts with the other separators and prefixes, with tabs, a shebang,
\* paths, and assignments that contain separators
LongScripts ==
  {"ls || cat",
   "sort < in >> out",
   "cat << EOF",
   "time nohup setsid stdbuf make all",
   "sudo env sudoers -l && A=1 time ls > out",
   "B=2|wc",
   "URL=a&&b",
   "A=1 B=2;C=3",
   "#!/bin/sh\n\n\t# note\n  A=1\tB=2  ",
   "ls|wc -l;pwd\n/usr/bin/env X=1 make"}

Scripts ==
  {Join(ws, " ") : ws \in SeqUpTo(ScriptWords, MaxWords)} \cup LongScripts

InitExtract ==
  /\ job = IdleJob
  /\ res = NoResult
  /\ jpc = "script"
  /\ NoDuration
  /\ shell \in Scripts
  /\ extracted = <<>>
  /\ again = <<>>
  /\ target = ""
  /\ edited = NoUpdate
  /\ PipelineIdle

CallExtractCommands ==
  /\ jpc = "script"
  /\ extracted' = extractCommands(shell)
  /\ jpc' = "extracted"
  /\ UNCHANGED <<job, res, dur, shown, shell, again, target, edited>>
  /\ UNCHANGED <<envVars, scanVars, fixVars>>

\* extractCommands applied to each command of extracted
CallExtractAgain ==
  /\ jpc = "extracted"
  /\ again' = [i \in 1..Len(extracted) |-> extractCommands(extracted[i])]
  /\ jpc' = "again"
  /\ UNCHANGED <<job, res, dur, shown, shell, extracted, target, edited>>
  /\ UNCHANGED <<envVars, scanVars, fixVars>>

NextExtract ==
  \/ CallExtractCommands
  \/ CallExtractAgain

SpecExtract == InitExtract /\ [][NextExtract]_vars

(***************************************************************************)
(* UpdateRunsOn applied to one file and one job id.                        *)
(***************************************************************************)
UpdateDocs ==
  Docs \cup {CommentedDoc, KeysFirstDoc, TrailingDoc, NoJobsDoc, BrokenDoc}

UpdateFiles == {File(d) : d \in UpdateDocs} \cup {NoFile}

\* the job ids of the documents, an id no document has, and two keys that
\* occur inside job blocks
UpdateTargets ==
  {JobBlocks[k].id : k \in 1..Len(JobBlocks)} \cup {"deploy", "permissions", "steps"}

InitUpdate ==
  /\ job = IdleJob
  /\ res = NoResult
  /\ jpc = "update"
  /\ NoDuration
  /\ shell = ""
  /\ extracted = <<>>
  /\ again = <<>>
  /\ target \in UpdateTargets
  /\ edited = NoUpdate
  /\ \E f \in UpdateFiles : disk = Files(f, File(DocOf({1})))
  /\ dirExists = TRUE
  /\ api = World(FailedReply)
  /\ apiReady = "ok"
  /\ command = "none"
  /\ args = [paths |-> <<>>, scanAll |-> FALSE, skipDuration |-> TRUE, force |-> FALSE]
  /\ edit = NoEdit
  /\ Fresh

\* the call UpdateRunsOn(CI, target, "ubuntu-slim") returned r
Returned(r, writeOK) ==
  /\ disk' = r.files
  /\ edited' = [called |-> TRUE, writeOK |-> writeOK, err |-> r.err, before |-> disk]

CallUpdateRunsOn ==
  /\ jpc = "update"
  /\ \E writeOK \in BOOLEAN :
       Returned(UpdateRunsOn(disk, CI, target, "ubuntu-slim", writeOK), writeOK)
  /\ jpc' = "updated"
  /\ UNCHANGED <<job, res, dur, shown, shell, extracted, again, target>>
  /\ UNCHANGED <<dirExists, api, apiReady, command, args, edit, scanVars, fixVars>>

NextUpdate == CallUpdateRunsOn

SpecUpdate == InitUpdate /\ [][NextUpdate]_vars

(***************************************************************************)
(* The commands: gh slimify (runScan) and gh slimify fix (runFix), both on *)
(* top of scan.Scan.                                                       *)
(***************************************************************************)
Init ==
  /\ job = IdleJob
  /\ res = NoResult
  /\ jpc = "idle"
  /\ NoDuration
  /\ NoCall
  /\ \E sc \in Scenarios :
       /\ disk = sc.files
       /\ dirExists = sc.dirExists
       /\ api = sc.api
       /\ apiReady = sc.apiReady
       /\ command = sc.cmd
       /\ args = sc.args
       /\ edit = sc.edit
  /\ Fresh

\* the loop of Scan over the paths it was given, going on to the next path
\* when one does not load
RECURSIVE LoadPathsSkipFailed(_, _, _)
LoadPathsSkipFailed(fs, paths, k) ==
  IF k > Len(paths) THEN [err |-> FALSE, workflows |-> <<>>]
  ELSE [err |-> FALSE,
        workflows |->
          (IF LoadWorkflow(fs, paths[k]).err THEN <<>>
           ELSE <<LoadWorkflow(fs, paths[k]).wf>>)
            \o LoadPathsSkipFailed(fs, paths, k + 1).workflows]

\* the loop of Scan over the paths it was given, from paths[k] on
RECURSIVE LoadPaths(_, _, _)
LoadPaths(fs, paths, k) ==
  IF k > Len(paths) THEN [err |-> FALSE, workflows |-> <<>>]
  ELSE LET loaded == LoadWorkflow(fs, paths[k])
           rest == LoadPaths(fs, paths, k + 1)
       IN IF loaded.err \/ rest.err THEN [err |-> TRUE, workflows |-> <<>>]
          ELSE [err |-> FALSE, workflows |-> <<loaded.wf>> \o rest.workflows]

\* the walk of LoadWorkflows, from WalkOrder[k] on
RECURSIVE WalkFrom(_, _)
WalkFrom(fs, k) ==
  IF k > Len(WalkOrder) THEN <<>>
  ELSE LET path == WalkOrder[k]
           loaded == LoadWorkflow(fs, path)
       IN (IF /\ fs[path].exists
              /\ (HasSuffix(path, ".yml") \/ HasSuffix(path, ".yaml"))
              /\ ~loaded.err
             THEN <<loaded.wf>> ELSE <<>>)
            \o WalkFrom(fs, k + 1)

LoadWorkflows(fs, dir) ==
  IF ~dir THEN [err |-> TRUE, workflows |-> <<>>]
  ELSE [err |-> FALSE, workflows |-> WalkFrom(fs, 1)]

\* the first workflow from index k on that has a job, Len(wfs) + 1 if none
RECURSIVE NextWorkflow(_, _)
NextWorkflow(wfs, k) ==
  IF k > Len(wfs) THEN k
  ELSE IF DOMAIN wfs[k].Jobs # {} THEN k
  ELSE NextWorkflow(wfs, k + 1)

JobsLeft(wfs, k) == IF k > Len(wfs) THEN {} ELSE DOMAIN wfs[k].Jobs

\* Scan going on to fetchDurations whatever skipDuration is
AfterClassifyAlwaysFetch == "fetch"

AfterClassify == IF args.skipDuration THEN "scanned" ELSE "fetch"

\* the workflows Scan loads: [err, workflows]
LoadAll(fs, dir, filesToScan) ==
  IF Len(filesToScan) > 0 THEN LoadPaths(fs, filesToScan, 1)
  ELSE LoadWorkflows(fs, dir)

\* Scan starts its loops over the workflows wfs at the workflow first
StartClassify(wfs, first) ==
  /\ workflows' = wfs
  /\ wi' = first
  /\ left' = JobsLeft(wfs, first)
  /\ pc' = IF first > Len(wfs) THEN AfterClassify ELSE "classify"
  /\ UNCHANGED <<scanErr, exit>>

\* Scan after loading
AfterLoad(loaded, filesToScan) ==
  IF loaded.err
    THEN /\ pc' = "done"
         /\ exit' = 1
         /\ scanErr' = TRUE
         /\ UNCHANGED <<workflows, wi, left>>
  ELSE IF Len(filesToScan) = 0 /\ Len(loaded.workflows) = 0
    THEN /\ pc' = "scanned"
         /\ UNCHANGED <<workflows, wi, left, scanErr, exit>>
  ELSE StartClassify(loaded.workflows, NextWorkflow(loaded.workflows, 1))

\* runScan / runFix up to the loops of Scan: the arguments and the loading
ScanLoad ==
  /\ pc = "start"
  /\ IF ~args.scanAll /\ Len(args.paths) = 0
       THEN /\ pc' = "done"
            /\ exit' = 1
            /\ UNCHANGED <<workflows, wi, left, scanErr>>
       ELSE AfterLoad(LoadAll(disk, dirExists,
                              IF args.scanAll THEN <<>> ELSE args.paths),
                      IF args.scanAll THEN <<>> ELSE args.paths)
  /\ UNCHANGED <<jobVars, envVars, result, fetch>>
  /\ UNCHANGED <<report, jobsToUpdate, skippedJobs, todo, curPath, updatedCount,
                 errorCount, updated, visits>>

\* the Candidate Scan appends for the eligible job j
NewCandidate(wf, jobID, j) ==
  [WorkflowPath |-> wf.Path, JobID |-> jobID, JobName |-> j.Name,
   LineNumber |-> j.LineStart, Duration |-> "",
   MissingCommands |-> GetMissingCommands(j)]

\* the IneligibleJob Scan appends for the job j
NewIneligible(wf, jobID, j, reasons) ==
  [WorkflowPath |-> wf.Path, JobID |-> jobID, JobName |-> j.Name,
   LineNumber |-> j.LineStart, Reasons |-> reasons]

\* the branch of the loop body taken on the verdict of checkEligibility,
\* with an ineligible job appended to both lists
RecordBoth(r, wf, jobID, verdict) ==
  IF verdict.eligible
    THEN [r EXCEPT !.Candidates = Append(@, NewCandidate(wf, jobID, wf.Jobs[jobID]))]
    ELSE [r EXCEPT
            !.Candidates = Append(@, NewCandidate(wf, jobID, wf.Jobs[jobID])),
            !.IneligibleJobs =
               Append(@, NewIneligible(wf, jobID, wf.Jobs[jobID], verdict.reasons))]

\* the branch of the loop body taken on the verdict of checkEligibility
Record(r, wf, jobID, verdict) ==
  IF verdict.eligible
    THEN [r EXCEPT !.Candidates = Append(@, NewCandidate(wf, jobID, wf.Jobs[jobID]))]
    ELSE [r EXCEPT
            !.IneligibleJobs =
               Append(@, NewIneligible(wf, jobID, wf.Jobs[jobID], verdict.reasons))]

\* the body of the loop over wf.Jobs: r is the pair of lists built so far
ClassifyJob(r, wf, jobID) ==
  Record(r, wf, jobID, checkEligibility(wf.Jobs[jobID]))

\* Scan moves on to the workflow next, or stays in the one it is in
Advance(jobID, next) ==
  /\ wi' = next
  /\ left' = IF next = wi THEN left \ {jobID} ELSE JobsLeft(workflows, next)
  /\ pc' = IF next > Len(workflows) THEN AfterClassify ELSE "classify"

\* one iteration of the loops of Scan: the jobs of a workflow are visited in
\* the order of a Go map, which is any order
ScanClassify ==
  /\ pc = "classify"
  /\ \E jobID \in left :
       /\ result' = ClassifyJob(result, workflows[wi], jobID)
       /\ Advance(jobID, IF left = {jobID} THEN NextWorkflow(workflows, wi + 1)
                         ELSE wi)
  /\ UNCHANGED <<jobVars, envVars, workflows, fetch, scanErr, fixVars>>

\* what fetchDurations gets for one candidate
FetchOne(world, c) == GetJobDuration(world[c.WorkflowPath], c.JobID, c.JobName)

\* the candidate c after GetJobDuration returned d for it
WithDuration(c, d) ==
  IF d.err THEN c ELSE [c EXCEPT !.Duration = formatDuration(d.secs)]

\* fetchDurations going on after GetRepoInfo or NewClient failed
fetchDurationsWithoutClient(candidates, world, ready) ==
  IF Len(candidates) = 0 THEN candidates
  ELSE [i \in 1..Len(candidates) |->
          WithDuration(candidates[i], FetchOne(world, candidates[i]))]

\* fetchDurations returning at the first failure of GetJobDuration
fetchDurationsStopOnError(candidates, world, ready) ==
  IF Len(candidates) = 0 \/ ready # "ok" THEN candidates
  ELSE [i \in 1..Len(candidates) |->
          IF \E k \in 1..i : FetchOne(world, candidates[k]).err
            THEN candidates[i]
          ELSE WithDuration(candidates[i], FetchOne(world, candidates[i]))]

\* fetchDurations: the candidates with their Duration filled in
fetchDurations(candidates, world, ready) ==
  IF Len(candidates) = 0 \/ ready # "ok" THEN candidates
  ELSE [i \in 1..Len(candidates) |->
          WithDuration(candidates[i], FetchOne(world, candidates[i]))]

\* the end of Scan: the durations, unless skipped
ScanFetchDurations ==
  /\ pc = "fetch"
  /\ result' = [result EXCEPT
                  !.Candidates = fetchDurations(result.Candidates, api, apiReady)]
  /\ fetch' = IF apiReady # "ok" THEN <<>>
              ELSE [i \in 1..Len(result.Candidates) |->
                      FetchOne(api, result.Candidates[i])]
  /\ pc' = "scanned"
  /\ UNCHANGED <<jobVars, envVars, workflows, wi, left, scanErr, fixVars>>

\* hasMissingCommands alone
HasWarningsMissingOnly(c) == Len(c.MissingCommands) > 0

\* hasMissingCommands || hasUnknownDuration
HasWarnings(c) ==
  LET duration == IF c.Duration = "" THEN "unknown" ELSE c.Duration
  IN Len(c.MissingCommands) > 0 \/ duration = "unknown"

\* the indices i of 1..n with P[i], ascending
Select(n, P) == Sorted({i \in 1..n : P[i]})

\* runScan after Scan: the candidates grouped into safe and warning jobs
ScanReport ==
  /\ pc = "scanned"
  /\ command = "scan"
  /\ LET n == Len(result.Candidates)
         warn == [i \in 1..n |-> HasWarnings(result.Candidates[i])]
     IN report' = [safe |-> Select(n, [i \in 1..n |-> ~warn[i]]),
                   warning |-> Select(n, warn)]
  /\ pc' = "done"
  /\ exit' = 0
  /\ UNCHANGED <<jobVars, envVars, workflows, wi, left, result, fetch, scanErr>>
  /\ UNCHANGED <<jobsToUpdate, skippedJobs, todo, curPath, updatedCount, errorCount,
                 updated, visits>>

\* the filter of runFix with the force flag taken as set
FixFilterAll ==
  /\ pc = "scanned"
  /\ command = "fix"
  /\ LET n == Len(result.Candidates)
         warn == [i \in 1..n |-> HasWarnings(result.Candidates[i])]
         toUpdate == Select(n, [i \in 1..n |-> TRUE])
         skipped == Select(n, [i \in 1..n |-> FALSE])
     IN IF n = 0
          THEN /\ pc' = "done"
               /\ exit' = 0
               /\ UNCHANGED <<jobsToUpdate, skippedJobs, todo>>
        ELSE /\ jobsToUpdate' = toUpdate
             /\ skippedJobs' = skipped
             /\ todo' = toUpdate
             /\ pc' = IF Len(toUpdate) = 0 THEN "done" ELSE "update"
             /\ exit' = IF Len(toUpdate) = 0 THEN 0 ELSE exit
  /\ UNCHANGED <<jobVars, envVars, workflows, wi, left, result, fetch, scanErr>>
  /\ UNCHANGED <<report, curPath, updatedCount, errorCount, updated, visits>>

\* runFix after Scan: the filter on the force flag
FixFilter ==
  /\ pc = "scanned"
  /\ command = "fix"
  /\ LET n == Len(result.Candidates)
         warn == [i \in 1..n |-> HasWarnings(result.Candidates[i])]
         toUpdate == Select(n, [i \in 1..n |-> ~warn[i] \/ args.force])
         skipped == Select(n, [i \in 1..n |-> warn[i] /\ ~args.force])
     IN IF n = 0
          THEN /\ pc' = "done"
               /\ exit' = 0
               /\ UNCHANGED <<jobsToUpdate, skippedJobs, todo>>
        ELSE /\ jobsToUpdate' = toUpdate
             /\ skippedJobs' = skipped
             /\ todo' = toUpdate
             /\ pc' = IF Len(toUpdate) = 0 THEN "done" ELSE "update"
             /\ exit' = IF Len(toUpdate) = 0 THEN 0 ELSE exit
  /\ UNCHANGED <<jobVars, envVars, workflows, wi, left, result, fetch, scanErr>>
  /\ UNCHANGED <<report, curPath, updatedCount, errorCount, updated, visits>>

\* the keys of workflowMap still to visit
PathsLeft == {result.Candidates[todo[k]].WorkflowPath : k \in 1..Len(todo)}

\* todo without its k-th entry
Without(q, k) == SubSeq(q, 1, k - 1) \o SubSeq(q, k + 1, Len(q))

\* the first entry of todo that is a job of the file path
FirstOf(path) ==
  Min({n \in 1..Len(todo) : result.Candidates[todo[n]].WorkflowPath = path})

\* what one iteration of the update loop did for the candidate with index i:
\* seen is the job as LoadWorkflow returned it in that iteration
Visited(i, outcome, seen) == [job |-> i, outcome |-> outcome, seen |-> seen]

\* the body of the update loop for the candidate with index i: reloaded is
\* what LoadWorkflow returns, upd what UpdateRunsOn would return
UpdateJob(i, reloaded, upd) ==
  IF reloaded.err
    THEN /\ errorCount' = errorCount + 1
         /\ visits' = Append(visits, Visited(i, "load failed", IdleJob))
         /\ UNCHANGED <<disk, updatedCount, updated>>
  ELSE IF result.Candidates[i].JobID \notin DOMAIN reloaded.wf.Jobs
    THEN /\ visits' = Append(visits, Visited(i, "not found", IdleJob))
         /\ UNCHANGED <<disk, updatedCount, errorCount, updated>>
  ELSE IF upd.err
    THEN /\ errorCount' = errorCount + 1
         /\ visits' = Append(visits,
                Visited(i, "update failed",
                        reloaded.wf.Jobs[result.Candidates[i].JobID]))
         /\ UNCHANGED <<disk, updatedCount, updated>>
  ELSE /\ disk' = upd.files
       /\ updatedCount' = updatedCount + 1
       /\ updated' = Append(updated, i)
       /\ visits' = Append(visits,
              Visited(i, "updated", reloaded.wf.Jobs[result.Candidates[i].JobID]))
       /\ UNCHANGED errorCount

\* the visit of the k-th entry of todo, a job of the file path
Visit(k, path, writeOK) ==
  /\ UpdateJob(todo[k], LoadWorkflow(disk, path),
               UpdateRunsOn(disk, path, result.Candidates[todo[k]].JobID,
                            "ubuntu-slim", writeOK))
  /\ todo' = Without(todo, k)
  /\ curPath' = path

\* one iteration of the update loops of runFix: the files are visited in the
\* order of a Go map, the jobs of a file in the order of jobsToUpdate
FixUpdateOne ==
  /\ pc = "update"
  /\ todo # <<>>
  /\ \E path \in PathsLeft, writeOK \in BOOLEAN :
       /\ curPath \in PathsLeft => path = curPath
       /\ Visit(FirstOf(path), path, writeOK)
  /\ UNCHANGED <<jobVars, dirExists, api, apiReady, command, args, edit, scanVars>>
  /\ UNCHANGED <<report, jobsToUpdate, skippedJobs, exit>>

\* the summary of runFix
FixSummary ==
  /\ pc = "update"
  /\ todo = <<>>
  /\ exit' = IF errorCount > 0 THEN 1 ELSE 0
  /\ pc' = "done"
  /\ UNCHANGED <<jobVars, envVars, workflows, wi, left, result, fetch, scanErr>>
  /\ UNCHANGED <<report, jobsToUpdate, skippedJobs, todo, curPath, updatedCount,
                 errorCount, updated, visits>>

\* another process rewrites or removes a file after fix has scanned it
EditFile ==
  /\ edit.pending
  /\ command = "fix"
  /\ pc \in {"scanned", "update"}
  /\ disk' = [disk EXCEPT ![edit.path] = edit.file]
  /\ edit' = NoEdit
  /\ UNCHANGED <<jobVars, dirExists, api, apiReady, command, args, scanVars, fixVars>>

Next ==
  \/ ScanLoad
  \/ ScanClassify
  \/ ScanFetchDurations
  \/ ScanReport
  \/ FixFilter
  \/ FixUpdateOne
  \/ FixSummary
  \/ EditFile

Spec == Init /\ [][Next]_vars

(***************************************************************************)
(* Claims on the eligibility functions, checked under SpecJob.             *)
(***************************************************************************)
Checked == jpc \in {"checked", "done"}

\* the runner is the scalar "ubuntu-latest" or a sequence with that element
ResolvesToUbuntuLatest(r) ==
  \/ r.kind = "string" /\ r.str = "ubuntu-latest"
  \/ r.kind = "seq" /\ StringValue("ubuntu-latest") \in Range(r.items)

\* C1: a job whose runner does not resolve to exactly "ubuntu-latest" is
\* ineligible and its reasons are exactly <<"does not run on ubuntu-latest">>,
\* whatever its steps, services and container are.
C1_RunnerShortCircuit ==
  (Checked /\ ~ResolvesToUbuntuLatest(job.RunsOn)) =>
     /\ res.eligible = FALSE
     /\ res.reasons = <<"does not run on ubuntu-latest">>

\* a job on another runner that also fails every other criterion
C1_Witness ==
  /\ jpc = "checked"
  /\ ~ResolvesToUbuntuLatest(job.RunsOn)
  /\ res.hasDockerCommands /\ res.hasContainerActions
  /\ res.hasServices /\ res.hasContainer
  /\ res.reasons = <<"does not run on ubuntu-latest">>

\* C2: for a job that passes the runner check the reasons are one per failing
\* criterion and nothing else, in the order Docker commands, container
\* actions, services, container.
C2_ReasonsPerCriterion ==
  (Checked /\ res.isUbuntuLatest) =>
     res.reasons =
       (IF res.hasDockerCommands THEN <<"uses Docker commands">> ELSE <<>>)
       \o (IF res.hasContainerActions
             THEN <<"uses container-based GitHub Actions">> ELSE <<>>)
       \o (IF res.hasServices THEN <<"uses service containers">> ELSE <<>>)
       \o (IF res.hasContainer THEN <<"uses container syntax">> ELSE <<>>)

\* all four criteria fail together
C2_Witness ==
  /\ jpc = "checked"
  /\ res.isUbuntuLatest
  /\ res.reasons = <<"uses Docker commands", "uses container-based GitHub Actions",
                     "uses service containers", "uses container syntax">>

\* C5: IsUbuntuLatest is true iff the runner is the scalar "ubuntu-latest" or
\* a sequence with a string element "ubuntu-latest"; absent runners, other
\* strings, other sequences and other shapes give false.
C5_IsUbuntuLatestExact ==
  (jpc # "input") =>
     /\ res.isUbuntuLatest = ResolvesToUbuntuLatest(job.RunsOn)
     /\ (job.RunsOn.kind \in {"nil", "int", "map"} => ~res.isUbuntuLatest)
     /\ (job.RunsOn.kind = "string" /\ job.RunsOn.str # "ubuntu-latest"
           => ~res.isUbuntuLatest)
     /\ (job.RunsOn.kind = "seq" /\ job.RunsOn.items = <<>> => ~res.isUbuntuLatest)

\* a sequence whose match is not its first element
C5_Witness ==
  /\ jpc = "predicates"
  /\ job.RunsOn.kind = "seq"
  /\ Len(job.RunsOn.items) = 2
  /\ job.RunsOn.items[1] # StringValue("ubuntu-latest")
  /\ res.isUbuntuLatest

\* C6: HasServices and HasContainer are true iff the field is present, so a
\* job on ubuntu-latest with a present services (container) field, empty or
\* not, is ineligible with the reason "uses service containers" ("uses
\* container syntax").
C6_PresenceFlags ==
  (Checked) =>
     /\ res.hasServices = (job.Services.kind # "nil")
     /\ res.hasContainer = (job.Container.kind # "nil")
     /\ (res.isUbuntuLatest /\ job.Services.kind # "nil" =>
           ~res.eligible /\ "uses service containers" \in Range(res.reasons))
     /\ (res.isUbuntuLatest /\ job.Container.kind # "nil" =>
           ~res.eligible /\ "uses container syntax" \in Range(res.reasons))

\* services: {} alone makes the job ineligible
C6_Witness ==
  /\ jpc = "checked"
  /\ job.Services = MapValue(0)
  /\ job.Container = NilValue
  /\ res.isUbuntuLatest
  /\ ~res.eligible
  /\ res.reasons = <<"uses service containers">>

\* C8: HasContainerActions is true iff some step's uses reference has the
\* docker:// image form or the docker/ organization form.
C8_OnlyDockerForms ==
  (jpc # "input") =>
     (res.hasContainerActions <=>
        \E i \in 1..Len(job.Steps) :
          \/ HasPrefix(job.Steps[i].Uses, "docker://")
          \/ HasPrefix(job.Steps[i].Uses, "docker/"))

(***************************************************************************)
(* Claims on the Docker command detection, checked under SpecDocker.       *)
(***************************************************************************)
\* phrase w occurs in s at position i as a whole word: no word character
\* right before it and none right after it (w starts and ends with letters)
WholeWordAt(s, i, w) ==
  /\ MatchAt(s, i, w)
  /\ (i = 1 \/ Char(s, i - 1) \notin WordChars)
  /\ (i + Len(w) > Len(s) \/ Char(s, i + Len(w)) \notin WordChars)

\* the text names a Docker command in the sense of C7
NamesDockerCommand(s) ==
  \E i \in 1..Len(s) :
    \/ \E sep \in {" ", "\t", "\n", "\r", "\f", "-"} :
         \E sub \in {"build", "run", "exec", "ps", "pull", "push", "tag", "login"} :
           WholeWordAt(s, i, "docker" \o sep \o sub)
    \/ WholeWordAt(s, i, "docker-compose")
    \/ \E j \in (i + 7)..Len(s) :
         /\ MatchAt(s, i, "docker")
         /\ \A k \in (i + 6)..(j - 1) : IsSpace(Char(s, k))
         /\ MatchAt(s, j, "compose")
         /\ WholeWordAt(s, i, SubSeq(s, i, j + 6))

\* C7: HasDockerCommands is true iff some step's script, lower-cased,
\* contains as a whole word "docker" + one whitespace or hyphen + one of
\* build|run|exec|ps|pull|push|tag|login, or "docker-compose", or "docker" +
\* whitespace + "compose"; case and comment lines make no difference, and
\* "dockerhub.com" or the lone word "docker" do not match.
C7_DockerWholeWord ==
  (jpc # "input") =>
     (res.hasDockerCommands <=>
        \E i \in 1..Len(job.Steps) : NamesDockerCommand(ToLower(job.Steps[i].Run)))

\* a capitalised Docker command in a comment line is detected
C7_Witness ==
  /\ jpc = "predicates"
  /\ job.Steps = <<Step("", "#Docker run")>>
  /\ res.hasDockerCommands

(***************************************************************************)
(* Claims on the missing-command resolver, checked under SpecMissing.      *)
(***************************************************************************)
\* the command names of the job's scripts, path stripped, in script order
ExtractedNames(j) ==
  LET cmds == CommandsOfSteps(j.Steps)
  IN [i \in 1..Len(cmds) |-> normalizeCommand(cmds[i])]

\* position of the first occurrence of x in the sequence xs
FirstIndex(xs, x) == CHOOSE i \in 1..Len(xs) : xs[i] = x /\ \A k \in 1..(i - 1) : xs[k] # x

\* C9: for a job on ubuntu-latest GetMissingCommands returns exactly the
\* names extracted from the scripts that are in the missing-in-slim set and
\* not setup-provided, each once, in the order of first occurrence.
C9_MissingExactlyOnceInOrder ==
  (jpc = "done" /\ res.isUbuntuLatest) =>
     LET names == ExtractedNames(job)
         m == res.missing
     IN /\ Range(m) = {n \in Range(names) :
                         n \in missingInSlim /\ n \notin getSetupProvidedCommands(job)}
        /\ \A a, b \in 1..Len(m) : a < b => m[a] # m[b]
        /\ \A a, b \in 1..Len(m) :
             a < b => FirstIndex(names, m[a]) < FirstIndex(names, m[b])

\* repeated commands, a path prefix and a setup-provided command together
C9_Witness ==
  /\ jpc = "done"
  /\ res.isUbuntuLatest
  /\ Len(job.Steps) = 3
  /\ HasPrefix(job.Steps[1].Uses, "actions/setup-go")
  /\ Len(ExtractedNames(job)) > Cardinality(Range(ExtractedNames(job)))
  /\ res.missing = <<"docker", "lsof", "npm">>

\* C10: when a step's uses reference starts with a registered setup-action
\* prefix, none of that action's commands is reported missing, wherever the
\* step sits; the commands of all matching actions are excluded together.
C10_SetupProvidedNeverMissing ==
  (jpc = "done") =>
     \A i \in 1..Len(job.Steps) : \A a \in 1..Len(setupActionCommands) :
       HasPrefix(job.Steps[i].Uses, setupActionCommands[a].prefix) =>
         Range(setupActionCommands[a].commands) \cap Range(res.missing) = {}

\* two setup actions placed after the script that uses their commands
C10_Witness ==
  /\ jpc = "done"
  /\ res.isUbuntuLatest
  /\ Len(job.Steps) = 3
  /\ {"go", "npm", "lsof"} \subseteq Range(ExtractedNames(job))
  /\ job.Steps[1].Run # ""
  /\ job.Steps[2].Uses = "actions/setup-node@v4"
  /\ job.Steps[3].Uses = "actions/setup-go@v5"
  /\ res.missing = <<"lsof">>

(***************************************************************************)
(* Claims on the commands, checked under Spec.                             *)
(***************************************************************************)
\* Scan was called and returned a result without error
ScanReturned ==
  /\ pc \in {"scanned", "update", "done"}
  /\ ~scanErr
  /\ args.scanAll \/ Len(args.paths) > 0

\* the job ids that occur in the loaded workflows or in the result
KnownIDs ==
  UNION {DOMAIN workflows[w].Jobs : w \in 1..Len(workflows)}
    \cup {result.Candidates[i].JobID : i \in 1..Len(result.Candidates)}
    \cup {result.IneligibleJobs[i].JobID : i \in 1..Len(result.IneligibleJobs)}

\* how many entries of list stand for the job id of the file path
Entries_(list, path, id) ==
  Cardinality({i \in 1..Len(list) :
                 list[i].WorkflowPath = path /\ list[i].JobID = id})

\* how many loaded workflows are the file path and have the job id
Loaded_(path, id) ==
  Cardinality({w \in 1..Len(workflows) :
                 workflows[w].Path = path /\ id \in DOMAIN workflows[w].Jobs})

\* C3: after Scan returns successfully, every job of every loaded workflow
\* appears exactly once across Candidates and IneligibleJobs: the two lists
\* together hold one entry per job of each loaded workflow, no job is in
\* both lists and no job is in neither
C3_EveryJobExactlyOnce ==
  ScanReturned =>
    \A path \in Paths, id \in KnownIDs :
      /\ Entries_(result.Candidates, path, id)
           + Entries_(result.IneligibleJobs, path, id) = Loaded_(path, id)
      /\ ~ /\ Entries_(result.Candidates, path, id) > 0
           /\ Entries_(result.IneligibleJobs, path, id) > 0

C3_Witness ==
  /\ ScanReturned
  /\ Len(workflows) = 2
  /\ Len(result.Candidates) = 2
  /\ Len(result.IneligibleJobs) = 1

\* the limit of README's sixth migration criterion, in seconds
FifteenMinutes == 900

\* C4: a job whose fetched latest-run duration is 15 minutes or more is not
\* migrated: fix never rewrites the runs-on of a candidate for which
\* GetJobDuration returned a duration of 15 minutes or more
C4_SlowJobNotMigrated ==
  \A k \in 1..Len(updated) :
    (updated[k] <= Len(fetch) /\ ~fetch[updated[k]].err)
      => fetch[updated[k]].secs < FifteenMinutes

(***************************************************************************)
(* Claims on the grouping of the candidates and on fix.                    *)
(***************************************************************************)
\* the candidate has no missing command and a known duration
IsSafe(c) == c.MissingCommands = <<>> /\ c.Duration # ""

Member(i, q) == \E k \in 1..Len(q) : q[k] = i

\* the number of entries of q equal to i
Times(i, q) == Cardinality({k \in 1..Len(q) : q[k] = i})

ScanReported == command = "scan" /\ pc = "done" /\ exit = 0

FixFiltered ==
  command = "fix" /\ pc \in {"update", "done"} /\ Len(result.Candidates) > 0

\* C11: every candidate is in exactly one of the two groups, the safe group
\* iff it has no missing commands and its duration is present; the report of
\* scan and the filter of fix (which without --force updates the safe group
\* and skips the other) group the candidates by this same predicate.
C11_SafeIffNoMissingAndDuration ==
  \A i \in 1..Len(result.Candidates) :
    /\ ScanReported =>
         /\ Times(i, report.safe) + Times(i, report.warning) = 1
         /\ Member(i, report.safe) <=> IsSafe(result.Candidates[i])
    /\ (FixFiltered /\ ~args.force) =>
         /\ Times(i, jobsToUpdate) + Times(i, skippedJobs) = 1
         /\ Member(i, jobsToUpdate) <=> IsSafe(result.Candidates[i])

\* scan reported a safe candidate next to one that has no missing command
\* but no duration either
C11_Witness ==
  /\ ScanReported
  /\ report.safe # <<>>
  /\ \E k \in 1..Len(report.warning) :
       /\ result.Candidates[report.warning[k]].MissingCommands = <<>>
       /\ result.Candidates[report.warning[k]].Duration = ""

\* UpdateRunsOn was called in the k-th iteration of the update loop
Called(k) == visits[k].outcome \in {"updated", "update failed"}

\* the job of the candidate c is also recorded as an IneligibleJob
RecordedIneligible(c) ==
  \E n \in 1..Len(result.IneligibleJobs) :
    /\ result.IneligibleJobs[n].WorkflowPath = c.WorkflowPath
    /\ result.IneligibleJobs[n].JobID = c.JobID

\* fix has gone through its update loop
FixLooped ==
  command = "fix" /\ pc = "done" /\ todo = <<>> /\ Len(jobsToUpdate) > 0

\* the update loop took the candidate i: it reloaded its file and, unless the
\* file was unreadable or the job gone by then, called UpdateRunsOn for it
Reached(i) ==
  \E k \in 1..Len(visits) : visits[k].job = i

C13_RewrittenJobStillEligible ==
  \A k \in 1..Len(visits) :
    visits[k].outcome = "updated" => checkEligibility(visits[k].seen).eligible

(***************************************************************************)
(* Claims on the durations.                                                *)
(***************************************************************************)
\* Scan has returned, after its call of fetchDurations for the candidates it
\* found
PastFetch ==
  /\ pc = "scanned"
  /\ ~args.skipDuration
  /\ Len(result.Candidates) > 0

\* the loaded workflow of the file path
LoadedFrom(path) ==
  workflows[CHOOSE k \in 1..Len(workflows) : workflows[k].Path = path]

\* the candidate as Scan appended it, before any duration was fetched
AsClassified(c) ==
  NewCandidate(LoadedFrom(c.WorkflowPath), c.JobID,
               LoadedFrom(c.WorkflowPath).Jobs[c.JobID])

\* C14: a failure of GetJobDuration for one candidate does not abort the
\* scan: Scan returns its result without error, that candidate keeps an
\* absent Duration and its other fields, and every other candidate the API
\* has a duration for still gets it.
C14_FetchFailureIsLocal ==
  (PastFetch /\ apiReady = "ok") =>
    /\ ~scanErr
    /\ \A i \in 1..Len(result.Candidates) :
         /\ [result.Candidates[i] EXCEPT !.Duration = ""]
              = AsClassified(result.Candidates[i])
         /\ IF FetchOne(api, result.Candidates[i]).err
              THEN result.Candidates[i].Duration = ""
            ELSE result.Candidates[i].Duration
                   = formatDuration(FetchOne(api, result.Candidates[i]).secs)

\* the fetch failed for the first candidate and succeeded for the second
C14_Witness ==
  /\ PastFetch
  /\ apiReady = "ok"
  /\ Len(result.Candidates) = 2
  /\ FetchOne(api, result.Candidates[1]).err
  /\ result.Candidates[1].Duration = ""
  /\ ~FetchOne(api, result.Candidates[2]).err
  /\ result.Candidates[2].Duration # ""

\* C15: when GetRepoInfo or the creation of the API client fails, no
\* duration is fetched for any candidate, Scan still returns its full result
\* without error, and every candidate has an absent Duration.
C15_NoClientNoDurations ==
  (PastFetch /\ apiReady # "ok") =>
    /\ ~scanErr
    /\ fetch = <<>>
    /\ \A i \in 1..Len(result.Candidates) :
         result.Candidates[i] = AsClassified(result.Candidates[i])
    /\ \A path \in Paths, id \in KnownIDs :
         Entries_(result.Candidates, path, id)
           + Entries_(result.IneligibleJobs, path, id) = Loaded_(path, id)

\* the repository could not be determined, and Scan returned two candidates
C15_Witness ==
  /\ PastFetch
  /\ apiReady = "no repository"
  /\ Len(result.Candidates) = 2

(***************************************************************************)
(* Claims on the loading of the documents.                                 *)
(***************************************************************************)
\* Scan has just loaded: no job is classified yet, and the files are still
\* as Scan read them
JustLoaded ==
  /\ pc # "start"
  /\ args.scanAll \/ Len(args.paths) > 0
  /\ result = EmptyResult
  /\ command = "scan" \/ pc \in {"classify", "fetch"} \/ scanErr

Loadable(path) == ~LoadWorkflow(disk, path).err

\* the workflow files of the directory that load, in the order of the walk
BulkPaths == SelectSeq(<<CI, Release>>, Loadable)

\* every job of the loaded workflow w has an entry in the result
Classified(w) ==
  \A id \in DOMAIN workflows[w].Jobs :
    Entries_(result.Candidates, workflows[w].Path, id)
      + Entries_(result.IneligibleJobs, workflows[w].Path, id) > 0

C16_WitnessNamed ==
  /\ ~args.scanAll
  /\ Len(args.paths) = 2
  /\ Loadable(args.paths[1])
  /\ disk[args.paths[2]].exists
  /\ ~Loadable(args.paths[2])
  /\ scanErr
  /\ exit = 1

(***************************************************************************)
(* Claims on the API client.                                               *)
(***************************************************************************)
IsSuccessful(run) == run.Status = "completed" /\ run.Conclusion = "success"

\* the indices of the successful runs of a reply; the API lists the runs
\* most recent first
SuccessfulRuns(reply) ==
  IF reply.err THEN {}
  ELSE {k \in 1..Len(reply.runs) : IsSuccessful(reply.runs[k])}

\* the duration taken from the most recent successful run and no other
FromLatest(reply, jobID, jobDisplayName) ==
  IF SuccessfulRuns(reply) = {} THEN [err |-> TRUE, secs |-> 0]
  ELSE getJobDurationFromRun(reply.runs[Min(SuccessfulRuns(reply))],
                             jobID, jobDisplayName)

\* C17: GetJobDuration takes the duration only from the most recent run that
\* is completed with conclusion success; when that run has no entry for the
\* job the result is an error, not the duration of an older run.
C17_OnlyLatestSuccessfulRun ==
  \A i \in 1..Len(fetch) :
    fetch[i] = FromLatest(api[result.Candidates[i].WorkflowPath],
                          result.Candidates[i].JobID,
                          result.Candidates[i].JobName)

\* the first entry of the run whose name is the display name, 0 if none
FirstNamed(run, jobDisplayName) ==
  IF \E k \in 1..Len(run.Jobs) : EqualFold(run.Jobs[k].Name, jobDisplayName)
    THEN Min({k \in 1..Len(run.Jobs) : EqualFold(run.Jobs[k].Name, jobDisplayName)})
  ELSE 0

\* C18: within one run an entry whose name equals the display name of the
\* job (case-insensitively) is preferred: when the run has such an entry,
\* its timing is the one returned, whatever entries match the job id.
C18_DisplayNameFirst ==
  \A i \in 1..Len(fetch) :
    \A k \in SuccessfulRuns(api[result.Candidates[i].WorkflowPath]) :
      FirstNamed(api[result.Candidates[i].WorkflowPath].runs[k],
                 result.Candidates[i].JobName) > 0
        => getJobDurationFromRun(api[result.Candidates[i].WorkflowPath].runs[k],
                                 result.Candidates[i].JobID,
                                 result.Candidates[i].JobName)
             = parseJobDuration(
                 api[result.Candidates[i].WorkflowPath].runs[k].Jobs[
                   FirstNamed(api[result.Candidates[i].WorkflowPath].runs[k],
                              result.Candidates[i].JobName)])

(***************************************************************************)
(* Claims on formatDuration, checked under SpecDuration.                   *)
(***************************************************************************)
Formatted == jpc = "formatted"

\* the text the claim states for a duration of d whole seconds
AsStated(d) ==
  IF d < 60 THEN ToString(d) \o "s"
  ELSE IF d < 3600
    THEN IF d % 60 = 0 THEN ToString(d \div 60) \o "m"
         ELSE ToString(d \div 60) \o "m" \o ToString(d % 60) \o "s"
  ELSE IF d % 3600 = 0 THEN ToString(d \div 3600) \o "h"
       ELSE ToString(d \div 3600) \o "h" \o ToString((d % 3600) \div 60) \o "m"

\* C19 as stated: "<s>s" below a minute; "<m>m" for an exact number of
\* minutes below an hour, else "<m>m<s>s"; "<h>h" for an exact number of
\* hours, else "<h>h<m>m" with the leftover minutes.
C19_FormatDurationAsStated == Formatted => shown = AsStated(dur)

\* the text for d whole seconds, with "<h>h" whenever no whole minute is
\* left over the hours
Amended(d) ==
  IF d >= 3600 /\ (d % 3600) \div 60 = 0 THEN ToString(d \div 3600) \o "h"
  ELSE AsStated(d)

\* C19, amended: as stated, except that from one hour on the seconds are
\* dropped, so "<h>h" is returned whenever the leftover whole minutes are
\* zero, also when d is not an exact number of hours.
C19_FormatDuration == Formatted => shown = Amended(dur)

\* a duration of an hour and some seconds was formatted
C19_Witness ==
  /\ Formatted
  /\ dur > 3600
  /\ dur < 3660
  /\ shown = "1h"

(***************************************************************************)
(* Claims on the rewriting of the documents, checked under Spec.           *)
(***************************************************************************)
\* after is a load of the document in which the job id has the runner v and
\* the steps, services and container it has in the load before
SameJobOn(before, after, id, v) ==
  /\ ~after.err
  /\ id \in DOMAIN after.wf.Jobs
  /\ after.wf.Jobs[id].RunsOn = StringValue(v)
  /\ after.wf.Jobs[id].Steps = before.wf.Jobs[id].Steps
  /\ after.wf.Jobs[id].Services = before.wf.Jobs[id].Services
  /\ after.wf.Jobs[id].Container = before.wf.Jobs[id].Container

\* C20: whenever UpdateRunsOn(path, jobID, v) succeeds, loading the document
\* again yields a job jobID whose runner is v and whose steps, services and
\* container are those loaded before the update.
C20_RoundTrip ==
  [][Len(updated') > Len(updated) =>
       SameJobOn(
         LoadWorkflow(disk, result.Candidates[updated'[Len(updated')]].WorkflowPath),
         LoadWorkflow(disk', result.Candidates[updated'[Len(updated')]].WorkflowPath),
         result.Candidates[updated'[Len(updated')]].JobID,
         "ubuntu-slim")]_vars

(***************************************************************************)
(* Claims on UpdateRunsOn, checked under SpecUpdate.                       *)
(***************************************************************************)
\* UpdateRunsOn was called and returned nil
Rewrote == jpc = "updated" /\ edited.called /\ ~edited.err

LinesOf(files, path) == Split(files[path].data, "\n")

\* the indices at which the lines before and after differ
Changed(before, after) ==
  {i \in 1..Len(before) : i > Len(after) \/ before[i] # after[i]}

\* the line of the runs-on entry of the job id of the document, 0 if the
\* document has no such job or the job no such entry
RunsOnRow(rows, id) ==
  LET hs == {h \in Range(JobHeaders(rows)) : rows[h].key = id}
  IN IF hs = {} THEN 0 ELSE EntryLine(rows, JobKids(rows, Min(hs)), "runs-on")

\* C21: on success UpdateRunsOn rewrites exactly one line of the file, the
\* runs-on line inside the block of the job jobID; the number of lines is
\* unchanged and every other line, and every other file, is unchanged.
C21_RewritesOnlyRunsOnLine ==
  Rewrote =>
    /\ \A p \in Paths \ {CI} : disk[p] = edited.before[p]
    /\ disk[CI].exists
    /\ Len(LinesOf(disk, CI)) = Len(LinesOf(edited.before, CI))
    /\ Changed(LinesOf(edited.before, CI), LinesOf(disk, CI))
         = {RunsOnRow(Rows(LinesOf(edited.before, CI)), target)}

\* the ids of the jobs mapping of a document that parses
JobIDsOf(rows) == {rows[h].key : h \in Range(JobHeaders(rows))}

\* UpdateRunsOn was called on a document that parses, with an id that is not
\* one of its jobs
CalledForUnknownJob ==
  /\ jpc = "updated"
  /\ edited.called
  /\ edited.before[CI].exists
  /\ ~YamlError(Rows(LinesOf(edited.before, CI)))
  /\ target \notin JobIDsOf(Rows(LinesOf(edited.before, CI)))

\* C22: UpdateRunsOn called with a jobID that is not a job of the document
\* returns an error and leaves the file content unchanged.
C22_UnknownJobIsAnError ==
  CalledForUnknownJob => (edited.err /\ disk = edited.before)

(***************************************************************************)
(* Claims on the update loop of fix, checked under Spec.                   *)
(***************************************************************************)
\* the iterations of the update loop that did not update their job
Failures == {k \in 1..Len(visits) : visits[k].outcome # "updated"}

\* C23: during a batch fix a failed update of one job (the document fails
\* to reload, the job vanished since the scan, the rewrite or the write
\* fails) does not stop the updates of the remaining jobs; every such
\* failure is counted, and the run exits zero only if every targeted job
\* was updated.
C23_FailuresCountedNotFatal ==
  FixLooped =>
    /\ \A k \in 1..Len(jobsToUpdate) : Reached(jobsToUpdate[k])
    /\ errorCount = Cardinality(Failures)
    /\ exit = 0 <=> Failures = {}

(***************************************************************************)
(* Claims on the verdicts recorded by Scan, checked under Spec.            *)
(***************************************************************************)
\* the verdict of checkEligibility on the job of a recorded entry
VerdictOf(entry) ==
  checkEligibility(LoadedFrom(entry.WorkflowPath).Jobs[entry.JobID])

\* eligible iff no reason is returned
Consistent(verdict) == verdict.eligible <=> verdict.reasons = <<>>

\* C24: checkEligibility returns eligible = true iff the reasons it returns
\* are empty, so every IneligibleJob recorded by Scan carries at least one
\* reason and no Candidate stands for a job with a non-empty reasons list.
C24_EligibleIffNoReasons ==
  /\ \A n \in 1..Len(result.IneligibleJobs) :
       result.IneligibleJobs[n].Reasons # <<>>
  /\ (pc = "scanned" /\ ~scanErr) =>
       /\ \A w \in 1..Len(workflows) :
            \A id \in DOMAIN workflows[w].Jobs :
              Consistent(checkEligibility(workflows[w].Jobs[id]))
       /\ \A n \in 1..Len(result.IneligibleJobs) :
            /\ ~VerdictOf(result.IneligibleJobs[n]).eligible
            /\ result.IneligibleJobs[n].Reasons
                 = VerdictOf(result.IneligibleJobs[n]).reasons
       /\ \A i \in 1..Len(result.Candidates) :
            /\ VerdictOf(result.Candidates[i]).eligible
            /\ VerdictOf(result.Candidates[i]).reasons = <<>>

\* Scan returned a candidate next to a job that is ineligible for its
\* services
C24_Witness ==
  /\ pc = "scanned"
  /\ ~scanErr
  /\ Len(result.Candidates) = 1
  /\ Len(result.IneligibleJobs) = 1
  /\ result.IneligibleJobs[1].Reasons = <<"uses service containers">>

(***************************************************************************)
(* Claims on extractCommands, checked under SpecExtract.                   *)
(***************************************************************************)
Extracted == jpc \in {"extracted", "again"}

\* C25: extractCommands is idempotent on its own output: for every script s
\* and every token t in extractCommands(s), extractCommands(t) = [t].
C25_IdempotentOnOutput ==
  jpc = "again" =>
    \A i \in 1..Len(extracted) : again[i] = <<extracted[i]>>

\* the line is blank after trimming or begins with "#"
BlankOrComment(line) ==
  TrimSpace(line) = "" \/ HasPrefix(TrimSpace(line), "#")

\* every whitespace-separated token of the line contains "="
OnlyAssignments(line) ==
  \A k \in 1..Len(Fields(line)) : Contains(Fields(line)[k], "=")

HasSeparator(line) ==
  \E k \in 1..Len(separators) : Contains(line, separators[k])

\* C26 as stated: extractCommands returns the empty list for every script
\* each of whose lines is blank after trimming, begins with "#", or consists
\* only of tokens containing "=".
C26_NoCommandsAsStated ==
  (Extracted
     /\ \A k \in 1..Len(Split(shell, "\n")) :
          BlankOrComment(Split(shell, "\n")[k])
            \/ OnlyAssignments(Split(shell, "\n")[k]))
    => extracted = <<>>

\* every line of the script is blank, a comment, or made of assignments
\* without separators only
NothingToRun(lines) ==
  \A k \in 1..Len(lines) :
    \/ BlankOrComment(lines[k])
    \/ OnlyAssignments(lines[k]) /\ ~HasSeparator(lines[k])

\* C26, amended: extractCommands returns the empty list for every script
\* each of whose lines is blank after trimming, begins with "#", or consists
\* only of tokens that contain "=" and none of the separators.
C26_NoCommands ==
  (Extracted /\ NothingToRun(Split(shell, "\n"))) => extracted = <<>>

\* a script of an assignment line and a comment line was handed over
C26_Witness ==
  /\ Extracted
  /\ NothingToRun(Split(shell, "\n"))
  /\ Len(Split(shell, "\n")) = 2
  /\ OnlyAssignments(Split(shell, "\n")[1])
  /\ TrimSpace(Split(shell, "\n")[1]) # ""
  /\ HasPrefix(TrimSpace(Split(shell, "\n")[2]), "#")
  /\ extracted = <<>>

\* the command segments of a line: the stretches between separators, read
\* left to right; cur is the segment being read
RECURSIVE Segments(_, _)
Segments(s, cur) ==
  IF s = "" THEN <<cur>>
  ELSE IF HasPrefix(s, "&&")
    THEN <<cur>> \o Segments(SubSeq(s, 3, Len(s)), "")
  ELSE IF Char(s, 1) \in {"|", ";", ">", "<"}
    THEN <<cur>> \o Segments(Tail(s), "")
  ELSE Segments(Tail(s), cur \o Char(s, 1))

\* the first token left after dropping the leading tokens with "=" and then
\* the tokens equal to a prefix literal, "" if none is left
TokenOf(tokens) ==
  LET named == {a \in 1..Len(tokens) :
                  \E k \in 1..a : ~Contains(tokens[k], "=")}
      kept == {b \in named :
                 \E k \in named : k <= b /\ tokens[k] \notin commandPrefixes}
  IN IF kept = {} THEN "" ELSE tokens[Min(kept)]

\* the tokens of the segments, in order, without the empty ones
RECURSIVE TokensOf(_)
TokensOf(segments) ==
  IF segments = <<>> THEN <<>>
  ELSE (IF TokenOf(Fields(Head(segments))) = "" THEN <<>>
        ELSE <<TokenOf(Fields(Head(segments)))>>)
         \o TokensOf(Tail(segments))

\* what the claim states for the lines of a script
RECURSIVE Stated(_)
Stated(lines) ==
  IF lines = <<>> THEN <<>>
  ELSE (IF BlankOrComment(Head(lines)) THEN <<>>
        ELSE TokensOf(Segments(Head(lines), "")))
         \o Stated(Tail(lines))

\* C27: for every surviving line extractCommands emits at most one token
\* per command segment (segments delimited by |, &&, ||, ;, >, <, >>, <<),
\* in left-to-right order; the token of a segment is the first token that
\* remains after dropping the leading tokens containing "=" and then every
\* consecutive token equal to one of sudo, env, time, nohup, setsid, stdbuf;
\* a token that merely starts with such a literal is not dropped.
C27_OneTokenPerSegment ==
  Extracted => extracted = Stated(Split(shell, "\n"))

\* prefixes were dropped in front of sudoers, which was kept, and three
\* segments of one line gave one token each
C27_Witness ==
  /\ Extracted
  /\ shell = "sudo env sudoers -l && A=1 time ls > out"
  /\ extracted = <<"sudoers", "ls", "out">>

(***************************************************************************)
(* Claims on the agreement of Scan and UpdateRunsOn.                       *)
(***************************************************************************)
\* Scan reports the job id of the loaded document as a candidate
IsCandidate(loaded, id) ==
  /\ ~loaded.err
  /\ id \in DOMAIN loaded.wf.Jobs
  /\ checkEligibility(loaded.wf.Jobs[id]).eligible

\* C28: classifier and editor agree: for an unmodified workflow file, every
\* job that Scan reports as a candidate (runner scalar ubuntu-latest, or a
\* sequence containing it, inline or as a multi-line list) is rewritten by
\* UpdateRunsOn(path, jobID, "ubuntu-slim") without error, the write
\* itself succeeding.  Checked under SpecUpdate.
C28_CandidatesAreRewritable ==
  (jpc = "updated" /\ edited.called /\ edited.writeOK
     /\ IsCandidate(LoadWorkflow(edited.before, CI), target))
    => ~edited.err

\* a Scan of the loaded document records the job id as ineligible for its
\* runner, and not as a candidate
ScannedAsNotUbuntuLatest(loaded, id) ==
  /\ ~loaded.err
  /\ id \in DOMAIN loaded.wf.Jobs
  /\ ClassifyJob(EmptyResult, loaded.wf, id).Candidates = <<>>
  /\ ClassifyJob(EmptyResult, loaded.wf, id).IneligibleJobs[1].Reasons
       = <<"does not run on ubuntu-latest">>

\* C29: fix reaches a fixed point: after fix reports a job as updated, a
\* subsequent Scan of the same file classifies that job as ineligible with
\* the reason "does not run on ubuntu-latest", so a second run of fix
\* rewrites nothing for it.  Checked under Spec.
C29_FixReachesFixedPoint ==
  [][Len(updated') > Len(updated) =>
       ScannedAsNotUbuntuLatest(
         LoadWorkflow(disk', result.Candidates[updated'[Len(updated')]].WorkflowPath),
         result.Candidates[updated'[Len(updated')]].JobID)]_vars

(***************************************************************************)
(* Claims on --skip-duration, checked under Spec.                          *)
(***************************************************************************)
\* C30: when Scan is run with skipDuration = true, no duration fetch is
\* attempted and every candidate has Duration absent, so no candidate is
\* classified safe and fix without --force calls UpdateRunsOn for no job.
C30_SkipDurationNothingSafe ==
  args.skipDuration =>
    /\ pc # "fetch"
    /\ fetch = <<>>
    /\ \A i \in 1..Len(result.Candidates) :
         /\ result.Candidates[i].Duration = ""
         /\ ~IsSafe(result.Candidates[i])
    /\ report.safe = <<>>
    /\ (command = "fix" /\ ~args.force) =>
         /\ jobsToUpdate = <<>>
         /\ visits = <<>>
         /\ updated = <<>>
         /\ updatedCount = 0

\* fix --skip-duration without --force found two candidates and skipped both
C30_Witness ==
  /\ args.skipDuration
  /\ command = "fix"
  /\ ~args.force
  /\ pc = "done"
  /\ exit = 0
  /\ Len(result.Candidates) = 2
  /\ Len(skippedJobs) = 2
  /\ visits = <<>>

=============================================================================
